---- MODULE Spec2Model ----
(***************************************************************************)
(* Vulnerability normalization and risk-scoring pipeline                   *)
(* (src/reports/process_vulnerabilities.py, class VulnerabilityNormalizer).*)
(*                                                                         *)
(* JSON objects are records whose DOMAIN is the set of keys present, so    *)
(* that Get mirrors dict.get.  A key whose JSON value is null is listed in *)
(* the object's "nulls" field instead of being given a value.  Text that   *)
(* is sliced or split by the code is a sequence of atoms.                  *)
(***************************************************************************)
EXTENDS Integers, Sequences, FiniteSets, Bags, TLC

VARIABLES files, pc, idx, all_vulnerabilities, tool_summary, risk_metrics,
          compliance_mapping, normalized_data, output_file, run, call, ret,
          watchlists, requests, next_id,
          fn, max_retries, attempt, posts, sleeps, llm_pc, llm_ret,
          gsp_pc, hf_token, gsp_data, llm_response, policies_data, output, policy_file,
          orch_pc, vulnerability_data, ai_insights, llm_calls, written_files, orch_ret

(* the variables of the report pipeline *)
pipelineVars == <<files, pc, idx, all_vulnerabilities, tool_summary, risk_metrics,
                  compliance_mapping, normalized_data, output_file, run, call, ret>>

(* the variables of the watchlist service *)
watchlistVars == <<watchlists, requests, next_id>>

(* the variables of a call of call_model or of LLMProvider.query *)
retryVars == <<fn, max_retries, attempt, posts, sleeps, llm_pc, llm_ret>>

(* the variables of a run of generate_security_policies *)
policyVars == <<gsp_pc, hf_token, gsp_data, llm_response, policies_data, output,
                policy_file>>

(* the variables of a SecurityReportOrchestrator *)
orchestratorVars == <<orch_pc, vulnerability_data, ai_insights, llm_calls,
                      written_files, orch_ret>>

(* what the report pipeline never touches *)
otherVars == <<watchlistVars, retryVars, policyVars, orchestratorVars>>

(* what the watchlist service never touches *)
besideWatchlist == <<pipelineVars, retryVars, policyVars, orchestratorVars>>

(* what a model call never touches *)
besideRetry == <<pipelineVars, watchlistVars, policyVars, orchestratorVars>>

(* what generate_security_policies never touches *)
besidePolicy == <<pipelineVars, watchlistVars, retryVars, orchestratorVars>>

(* what the orchestrator never touches *)
besideOrchestrator == <<pipelineVars, watchlistVars, retryVars, policyVars>>

vars == <<pipelineVars, otherVars>>

(***************************************************************************)
(* Bounds of the model.                                                    *)
(***************************************************************************)
MaxItems == 2
MaxPresent == 2
MaxHigh == 6
MaxMedium == 11
MaxOther == 1
MaxRuns == 2
MaxIds == 12
MaxRequests == 2
MaxRetries == 3

(***************************************************************************)
(* Python helpers.                                                         *)
(***************************************************************************)
Get(d, k, def) == IF k \in DOMAIN d THEN d[k] ELSE def

IsNull(d, k) == k \in Get(d, "nulls", {})

(* {} *)
EmptyDict == [nulls |-> {}]

(* the value None that dict.get returns for a key holding JSON null *)
Null == [null |-> TRUE]

(* an Optional value: None, or the value *)
NoValue == << >>

Some(x) == <<x>>

Min(a, b) == IF a <= b THEN a ELSE b

Upper(s) ==
    CASE s = "high" -> "HIGH"
      [] s = "High" -> "HIGH"
      [] s = "Medium" -> "MEDIUM"
      [] s = "Low" -> "LOW"
      [] s = "Informational" -> "INFORMATIONAL"
      [] s = "critical" -> "CRITICAL"
      [] OTHER -> s

(* the text is not cut *)
PrefixWhole(s, n) == s

(* s[:n] *)
Prefix(s, n) == IF Len(s) <= n THEN s ELSE SubSeq(s, 1, n)

RECURSIVE Flatten(_)
Flatten(ss) == IF ss = << >> THEN << >> ELSE Head(ss) \o Flatten(Tail(ss))

RECURSIVE SumSeq(_)
SumSeq(s) == IF s = << >> THEN 0 ELSE Head(s) + SumSeq(Tail(s))

SeqsUpTo(S, n) == UNION {[1..k -> S] : k \in 0..n}

(***************************************************************************)
(* __init__: the severity table.                                           *)
(***************************************************************************)
severity_map ==
    [CRITICAL |-> 10, HIGH |-> 8, MEDIUM |-> 5, LOW |-> 3, INFO |-> 1,
     INFORMATIONAL |-> 1, NEGLIGIBLE |-> 1]

SeverityScore(severity) == Get(severity_map, severity, 5)

(***************************************************************************)
(* Outcome of a try body: either it raised, or it produced a list.         *)
(***************************************************************************)
Raise == [raised |-> TRUE, vulns |-> << >>]

Return(vs) == [raised |-> FALSE, vulns |-> vs]

(* the exception leaves the normalizer *)
Uncaught(outcome) == outcome

(* try: ... except Exception as e: print(...); return [] *)
Caught(outcome) == IF outcome.raised THEN Return(<< >>) ELSE outcome

(* with open(report_path) as f: data = json.load(f): open raises when the  *)
(* file is missing, json.load when the text is not JSON                    *)
LoadFails(content) == content.kind # "json"

(* data.get(key, []) on the loaded document; a list or scalar has no .get *)
TopGetRaises(data, key) == data.top # "dict" \/ IsNull(data, key)

SeqRaises(s, R(_)) == \E i \in 1..Len(s) : R(s[i])

(***************************************************************************)
(* normalize_gitleaks                                                      *)
(***************************************************************************)
Unknown == <<"u", "n", "k", "n", "o", "w", "n">>

GitleaksRaises(finding) ==
    \/ IsNull(finding, "Commit")
    \/ "Commit" \notin DOMAIN finding /\ IsNull(finding, "File")

(* severity and score taken from the table's default instead of being fixed *)
GitleaksVulnMedium(finding) ==
    [id |-> <<"GITLEAKS-">>
              \o Prefix(Get(finding, "Commit", Get(finding, "File", Unknown)), 8),
     tool |-> "Gitleaks",
     category |-> "Secrets",
     severity |-> "MEDIUM",
     severity_score |-> SeverityScore("MEDIUM"),
     remediation |-> "Remove the secret from version control and rotate credentials immediately.",
     cwe |-> <<"CWE-798">>,
     owasp |-> <<"A02:2021-Cryptographic Failures">>,
     compliance |-> <<<<"ISO 27001", ": A.9.4.3">>, <<"PCI-DSS", ": 6.5.3">>>>]

GitleaksVuln(finding) ==
    [id |-> <<"GITLEAKS-">>
              \o Prefix(Get(finding, "Commit", Get(finding, "File", Unknown)), 8),
     tool |-> "Gitleaks",
     category |-> "Secrets",
     severity |-> "CRITICAL",
     severity_score |-> 10,
     remediation |-> "Remove the secret from version control and rotate credentials immediately.",
     cwe |-> <<"CWE-798">>,
     owasp |-> <<"A02:2021-Cryptographic Failures">>,
     compliance |-> <<<<"ISO 27001", ": A.9.4.3">>, <<"PCI-DSS", ": 6.5.3">>>>]

(* each finding has its own try: one that raises is left out *)
GitleaksBodySkipsBad(content) ==
    IF LoadFails(content) THEN Raise
    ELSE LET data == content.data
             bad == IF data.top = "list" THEN FALSE ELSE TopGetRaises(data, "findings")
             findings == IF data.top = "list" THEN data.items
                         ELSE Get(data, "findings", << >>)
             good == SelectSeq(findings, LAMBDA finding : ~GitleaksRaises(finding))
         IN  IF bad THEN Raise
             ELSE Return([i \in 1..Len(good) |-> GitleaksVuln(good[i])])

(* the try body of normalize_gitleaks *)
GitleaksBody(content) ==
    IF LoadFails(content) THEN Raise
    ELSE LET data == content.data
             bad == IF data.top = "list" THEN FALSE ELSE TopGetRaises(data, "findings")
             findings == IF data.top = "list" THEN data.items
                         ELSE Get(data, "findings", << >>)
         IN  IF bad \/ SeqRaises(findings, GitleaksRaises) THEN Raise
             ELSE Return([i \in 1..Len(findings) |-> GitleaksVuln(findings[i])])

normalize_gitleaks(content) == Caught(GitleaksBody(content))

(***************************************************************************)
(* normalize_semgrep                                                       *)
(***************************************************************************)
SemgrepRaises(result) ==
    \/ IsNull(result, "extra")
    \/ IsNull(Get(result, "extra", [nulls |-> {}]), "severity")
    \/ IsNull(Get(result, "extra", [nulls |-> {}]), "metadata")

SemgrepVuln(result) ==
    LET extra == Get(result, "extra", [nulls |-> {}])
        metadata == Get(extra, "metadata", [nulls |-> {}])
        severity == Upper(Get(extra, "severity", "MEDIUM"))
    IN  [id |-> Get(result, "check_id", <<"SEMGREP-UNKNOWN">>),
         tool |-> "Semgrep",
         category |-> "SAST",
         severity |-> severity,
         severity_score |-> SeverityScore(severity),
         cwe |-> Get(metadata, "cwe", << >>),
         owasp |-> Get(metadata, "owasp", << >>)]

SemgrepBody(content) ==
    IF LoadFails(content) THEN Raise
    ELSE LET data == content.data
         IN  IF TopGetRaises(data, "results") THEN Raise
             ELSE LET results == Get(data, "results", << >>)
                  IN  IF SeqRaises(results, SemgrepRaises) THEN Raise
                      ELSE Return([i \in 1..Len(results) |-> SemgrepVuln(results[i])])

normalize_semgrep(content) == Caught(SemgrepBody(content))

(***************************************************************************)
(* normalize_dependency_check                                              *)
(***************************************************************************)
DepVulnRaises(vuln_data) ==
    \/ IsNull(vuln_data, "severity")
    \/ IsNull(vuln_data, "cvssv3")

DepVuln(vuln_data) ==
    LET severity == Upper(Get(vuln_data, "severity", "MEDIUM"))
        cvssv3 == Get(vuln_data, "cvssv3", EmptyDict)
    IN  [id |-> Get(vuln_data, "name", <<"CVE-UNKNOWN">>),
         tool |-> "Dependency-Check",
         category |-> "SCA",
         severity |-> severity,
         severity_score |-> IF IsNull(cvssv3, "baseScore") THEN Null
                            ELSE Get(cvssv3, "baseScore", SeverityScore(severity)),
         cwe |-> <<Get(vuln_data, "cwe", "CWE-1035")>>,
         compliance |-> <<<<"ISO 27001", ": A.12.6.1">>, <<"PCI-DSS", ": 6.2">>>>]

(* if 'vulnerabilities' not in dep: continue *)
DepVulnList(dep) == Get(dep, "vulnerabilities", << >>)

DepRaises(dep) ==
    \/ IsNull(dep, "vulnerabilities")
    \/ SeqRaises(DepVulnList(dep), DepVulnRaises)

DepVulns(dep) ==
    [i \in 1..Len(DepVulnList(dep)) |-> DepVuln(DepVulnList(dep)[i])]

DependencyCheckBody(content) ==
    IF LoadFails(content) THEN Raise
    ELSE LET data == content.data
         IN  IF TopGetRaises(data, "dependencies") THEN Raise
             ELSE LET dependencies == Get(data, "dependencies", << >>)
                  IN  IF SeqRaises(dependencies, DepRaises) THEN Raise
                      ELSE Return(Flatten([i \in 1..Len(dependencies) |->
                                              DepVulns(dependencies[i])]))

normalize_dependency_check(content) == Caught(DependencyCheckBody(content))

(***************************************************************************)
(* normalize_trivy                                                         *)
(***************************************************************************)
(* .upper() of None, .get of None *)
TrivyVulnRaises(vuln_data) ==
    \/ IsNull(vuln_data, "Severity")
    \/ IsNull(vuln_data, "CVSS")
    \/ IsNull(Get(vuln_data, "CVSS", EmptyDict), "nvd")

(* vuln_data.get('CVSS', {}).get('nvd', {}).get('V3Score', 0) *)
TrivyCvssScore(vuln_data) ==
    Get(Get(Get(vuln_data, "CVSS", EmptyDict), "nvd", EmptyDict), "V3Score", 0)

(* the CVSS score of the finding replaces the table value *)
TrivyVulnCvssOverride(vuln_data) ==
    LET severity == Upper(Get(vuln_data, "Severity", "MEDIUM"))
    IN  [id |-> Get(vuln_data, "VulnerabilityID", <<"TRIVY-UNKNOWN">>),
         tool |-> "Trivy",
         category |-> "Container Security",
         severity |-> severity,
         severity_score |-> IF TrivyCvssScore(vuln_data) # 0
                            THEN TrivyCvssScore(vuln_data)
                            ELSE SeverityScore(severity),
         cvss_score |-> TrivyCvssScore(vuln_data),
         compliance |-> <<<<"ISO 27001", ": A.12.6.1">>, <<"CIS Docker Benchmark">>>>]

TrivyVuln(vuln_data) ==
    LET severity == Upper(Get(vuln_data, "Severity", "MEDIUM"))
    IN  [id |-> Get(vuln_data, "VulnerabilityID", <<"TRIVY-UNKNOWN">>),
         tool |-> "Trivy",
         category |-> "Container Security",
         severity |-> severity,
         severity_score |-> SeverityScore(severity),
         cvss_score |-> TrivyCvssScore(vuln_data),
         compliance |-> <<<<"ISO 27001", ": A.12.6.1">>, <<"CIS Docker Benchmark">>>>]

TrivyVulnList(result) == Get(result, "Vulnerabilities", << >>)

TrivyResultRaises(result) ==
    \/ IsNull(result, "Vulnerabilities")
    \/ SeqRaises(TrivyVulnList(result), TrivyVulnRaises)

TrivyResultVulns(result) ==
    [i \in 1..Len(TrivyVulnList(result)) |-> TrivyVuln(TrivyVulnList(result)[i])]

TrivyBody(content) ==
    IF LoadFails(content) THEN Raise
    ELSE LET data == content.data
         IN  IF TopGetRaises(data, "Results") THEN Raise
             ELSE LET results == Get(data, "Results", << >>)
                  IN  IF SeqRaises(results, TrivyResultRaises) THEN Raise
                      ELSE Return(Flatten([i \in 1..Len(results) |->
                                              TrivyResultVulns(results[i])]))

normalize_trivy(content) == Caught(TrivyBody(content))

(***************************************************************************)
(* normalize_zap                                                           *)
(***************************************************************************)
(* alert.get('riskdesc', 'Medium').split()[0]: riskdesc is held as the     *)
(* sequence of its whitespace-separated tokens                             *)
RiskTokens(alert) == Get(alert, "riskdesc", <<"Medium">>)

ZapAlertRaises(alert) ==
    \/ IsNull(alert, "riskdesc")
    \/ RiskTokens(alert) = << >>
    \/ IsNull(alert, "instances")
    \/ Get(alert, "instances", <<[nulls |-> {}]>>) = << >>

ZapVuln(alert) ==
    LET risk == Upper(Head(RiskTokens(alert)))
    IN  [id |-> <<"ZAP-">> \o Get(alert, "pluginid", <<"UNKNOWN">>),
         tool |-> "OWASP ZAP",
         category |-> "DAST",
         severity |-> risk,
         severity_score |-> SeverityScore(risk),
         cwe |-> <<"CWE-" \o Get(alert, "cweid", "0")>>,
         owasp |-> <<Get(alert, "wascid", "OWASP-Unknown")>>,
         compliance |-> <<<<"ISO 27001", ": A.14.2.1">>, <<"OWASP Top 10">>>>]

(* site = data.get('site', [{}])[0] if data.get('site') else {} *)
ZapBody(content) ==
    IF LoadFails(content) THEN Raise
    ELSE LET data == content.data
         IN  IF data.top # "dict" THEN Raise
             ELSE LET sites == IF IsNull(data, "site") THEN << >>
                               ELSE Get(data, "site", << >>)
                      site == IF sites = << >> THEN [nulls |-> {}] ELSE Head(sites)
                  IN  IF IsNull(site, "alerts") THEN Raise
                      ELSE LET alerts == Get(site, "alerts", << >>)
                           IN  IF SeqRaises(alerts, ZapAlertRaises) THEN Raise
                               ELSE Return([i \in 1..Len(alerts) |-> ZapVuln(alerts[i])])

normalize_zap(content) == Caught(ZapBody(content))

(***************************************************************************)
(* process_all_reports: the reports dict, in insertion order.  A file name *)
(* is the sequence of its segments, so that replace('-report.json', '')    *)
(* is computed and not assumed.                                            *)
(***************************************************************************)
reports ==
    << [file |-> <<"gitleaks", "-report.json">>, normalizer |-> "normalize_gitleaks"],
       [file |-> <<"semgrep", "-report.json">>, normalizer |-> "normalize_semgrep"],
       [file |-> <<"dependency-check", "-report.json">>, normalizer |-> "normalize_trivy"],
       [file |-> <<"trivy-dependencies", ".json">>, normalizer |-> "normalize_trivy"],
       [file |-> <<"trivy-image-scan", ".json">>, normalizer |-> "normalize_trivy"],
       [file |-> <<"trivy", "-report.json">>, normalizer |-> "normalize_trivy"],
       [file |-> <<"zap", "-report.json">>, normalizer |-> "normalize_zap"] >>

NumReports == Len(reports)

(* report_file.replace('-report.json', '') *)
ToolKey(file) == SelectSeq(file, LAMBDA seg : seg # "-report.json")

NormalizerNames ==
    {"normalize_gitleaks", "normalize_semgrep", "normalize_dependency_check",
     "normalize_trivy", "normalize_zap"}

Call(normalizer, content) ==
    CASE normalizer = "normalize_gitleaks" -> normalize_gitleaks(content)
      [] normalizer = "normalize_semgrep" -> normalize_semgrep(content)
      [] normalizer = "normalize_dependency_check" -> normalize_dependency_check(content)
      [] normalizer = "normalize_trivy" -> normalize_trivy(content)
      [] normalizer = "normalize_zap" -> normalize_zap(content)

(* report_path.exists() *)
Exists(content) == content.kind # "absent"

(***************************************************************************)
(* all_vulnerabilities.sort(key=severity_score, reverse=True): Python's    *)
(* sort is stable, also with reverse=True.                                 *)
(***************************************************************************)
SortKey(x) == Get(x, "severity_score", 0)

(* position of x among the already ordered elements: behind every element  *)
(* whose key is not smaller                                                 *)
InsertUnstable(sorted, x) ==
    LET before == SelectSeq(sorted, LAMBDA y : SortKey(y) > SortKey(x))
        after == SelectSeq(sorted, LAMBDA y : SortKey(y) <= SortKey(x))
    IN  before \o <<x>> \o after

InsertDesc(sorted, x) ==
    LET before == SelectSeq(sorted, LAMBDA y : SortKey(y) >= SortKey(x))
        after == SelectSeq(sorted, LAMBDA y : SortKey(y) < SortKey(x))
    IN  before \o <<x>> \o after

RECURSIVE SortDesc(_)
SortDesc(s) ==
    IF s = << >> THEN << >>
    ELSE InsertDesc(SortDesc(SubSeq(s, 1, Len(s) - 1)), s[Len(s)])

(***************************************************************************)
(* calculate_risk_score                                                    *)
(***************************************************************************)
InitialCounts == [CRITICAL |-> 0, HIGH |-> 0, MEDIUM |-> 0, LOW |-> 0, INFO |-> 0]

(* for vuln in vulnerabilities: severity_counts[severity] = ... + 1 *)
RECURSIVE CountSeverities(_, _)
CountSeverities(vulnerabilities, severity_counts) ==
    IF vulnerabilities = << >> THEN severity_counts
    ELSE LET severity == Upper(Get(Head(vulnerabilities), "severity", "MEDIUM"))
         IN  CountSeverities(Tail(vulnerabilities),
                 [k \in DOMAIN severity_counts \cup {severity} |->
                     IF k = severity THEN Get(severity_counts, k, 0) + 1
                     ELSE severity_counts[k]])

WeightedScoreMutant(severity_counts) ==
    severity_counts["CRITICAL"] * 10 + severity_counts["HIGH"] * 5
        + severity_counts["MEDIUM"] * 2 + severity_counts["LOW"] * 1
        + severity_counts["INFO"] * 1

WeightedScore(severity_counts) ==
    severity_counts["CRITICAL"] * 10 + severity_counts["HIGH"] * 5
        + severity_counts["MEDIUM"] * 2 + severity_counts["LOW"] * 1

RiskLevelMutant(severity_counts) ==
    IF severity_counts["CRITICAL"] > 0 THEN "CRITICAL"
    ELSE IF severity_counts["HIGH"] >= 5 THEN "HIGH"
    ELSE IF severity_counts["HIGH"] > 0 THEN "MEDIUM-HIGH"
    ELSE IF severity_counts["MEDIUM"] > 10 THEN "MEDIUM"
    ELSE "LOW"

RiskLevel(severity_counts) ==
    IF severity_counts["CRITICAL"] > 0 THEN "CRITICAL"
    ELSE IF severity_counts["HIGH"] > 5 THEN "HIGH"
    ELSE IF severity_counts["HIGH"] > 0 THEN "MEDIUM-HIGH"
    ELSE IF severity_counts["MEDIUM"] > 10 THEN "MEDIUM"
    ELSE "LOW"

(* the empty list gets no risk level *)
calculate_risk_score_empty_unknown(vulnerabilities) ==
    IF vulnerabilities = << >>
    THEN [total |-> 0, critical |-> 0, high |-> 0, medium |-> 0, low |-> 0,
          risk_score |-> 0, risk_level |-> "UNKNOWN"]
    ELSE LET severity_counts == CountSeverities(vulnerabilities, InitialCounts)
         IN  [total |-> Len(vulnerabilities),
              critical |-> severity_counts["CRITICAL"],
              high |-> severity_counts["HIGH"],
              medium |-> severity_counts["MEDIUM"],
              low |-> severity_counts["LOW"],
              info |-> severity_counts["INFO"],
              risk_score |-> WeightedScore(severity_counts),
              risk_level |-> RiskLevel(severity_counts)]

calculate_risk_score(vulnerabilities) ==
    IF vulnerabilities = << >>
    THEN [total |-> 0, critical |-> 0, high |-> 0, medium |-> 0, low |-> 0,
          risk_score |-> 0, risk_level |-> "LOW"]
    ELSE LET severity_counts == CountSeverities(vulnerabilities, InitialCounts)
         IN  [total |-> Len(vulnerabilities),
              critical |-> severity_counts["CRITICAL"],
              high |-> severity_counts["HIGH"],
              medium |-> severity_counts["MEDIUM"],
              low |-> severity_counts["LOW"],
              info |-> severity_counts["INFO"],
              risk_score |-> WeightedScore(severity_counts),
              risk_level |-> RiskLevel(severity_counts)]

(***************************************************************************)
(* generate_compliance_mapping                                             *)
(***************************************************************************)
TopN == 10

Range(s) == {s[i] : i \in 1..Len(s)}

(* any(marker in str(c) for c in vuln.get('compliance', [])) *)
HasMarker(vuln, marker) ==
    \E c \in Range(Get(vuln, "compliance", << >>)) : marker \in Range(c)

Collected(vuln, framework) ==
    CASE framework = "ISO_27001" -> HasMarker(vuln, "ISO 27001")
      [] framework = "PCI_DSS" -> HasMarker(vuln, "PCI-DSS")
      [] framework = "OWASP_Top_10" -> Get(vuln, "owasp", << >>) # << >>
      [] framework = "CWE_Top_25" -> Get(vuln, "cwe", << >>) # << >>
      [] framework = "NIST_CSF" -> FALSE

Frameworks == {"ISO_27001", "PCI_DSS", "OWASP_Top_10", "CWE_Top_25", "NIST_CSF"}

FrameworkVulns(vulnerabilities, framework) ==
    SelectSeq(vulnerabilities, LAMBDA v : Collected(v, framework))

(* list(set(vulns))[:10]: which ids survive the cut depends on the set's    *)
(* iteration order, so every subset of the right size is a possible result  *)
IdSamples(ids) ==
    IF Cardinality(ids) <= TopN THEN {ids}
    ELSE {S \in SUBSET ids : Cardinality(S) = TopN}

(* set(vulns) *)
MatchingIds(vulnerabilities, framework) ==
    {v.id : v \in Range(FrameworkVulns(vulnerabilities, framework))}

(* compliance_map[framework]: the ids in the order they were appended *)
IdList(vulnerabilities, framework) ==
    [i \in 1..Len(FrameworkVulns(vulnerabilities, framework)) |->
        FrameworkVulns(vulnerabilities, framework)[i].id]

(* a list up to the order of its elements *)
BagOfSeq(s) == [x \in Range(s) |-> Cardinality({i \in 1..Len(s) : s[i] = x})]

(* vulns[:10], without the conversion to a set *)
generate_compliance_mapping_no_dedupe(vulnerabilities, sample) ==
    [framework \in Frameworks |->
        [count |-> Len(FrameworkVulns(vulnerabilities, framework)),
         vulnerability_ids |-> BagOfSeq(Prefix(IdList(vulnerabilities, framework), TopN))]]

(* sample[framework] holds the elements of list(set(vulns))[:10]; the list *)
(* is kept up to its order, as the bag of its elements                     *)
generate_compliance_mapping(vulnerabilities, sample) ==
    [framework \in Frameworks |->
        [count |-> Len(FrameworkVulns(vulnerabilities, framework)),
         vulnerability_ids |-> SetToBag(sample[framework])]]

(***************************************************************************)
(* Report directories the runs start from.                                 *)
(***************************************************************************)
Absent == [kind |-> "absent"]

Invalid == [kind |-> "invalid"]

Json(data) == [kind |-> "json", data |-> data]

Commit1 == <<"a", "b", "c", "d", "e", "f", "0", "1", "2", "3">>

Path1 == <<"e", "n", "v">>

Path9 == <<"s", "r", "c", "/", "k", "e", "y", "s", "1">>

(* findings with Commit, with File only, with neither, and with a null Commit *)
GitleaksIdFindings ==
    { [Commit |-> Commit1, File |-> Path1],
      [File |-> Path9, RuleID |-> "generic-api-key"],
      [RuleID |-> "generic-api-key"],
      [File |-> Path1, nulls |-> {"Commit"}] }

GitleaksFindings ==
    { [Commit |-> Commit1, File |-> Path1, RuleID |-> "aws-key"],
      [File |-> Path1, nulls |-> {"Commit"}] }

SemgrepResults ==
    { [check_id |-> <<"rule-sqli">>,
       extra |-> [severity |-> "ERROR",
                  metadata |-> [cwe |-> <<"CWE-89">>, owasp |-> <<"A03:2021">>]]],
      [check_id |-> <<"rule-eval">>, extra |-> [severity |-> "high"]] }

TrivyVulnsOf(file) ==
    CASE file = 3 -> { [VulnerabilityID |-> <<"CVE-31">>, Severity |-> "HIGH"],
                       [VulnerabilityID |-> <<"CVE-32">>, Severity |-> "MEDIUM"] }
      [] file = 4 -> { [VulnerabilityID |-> <<"CVE-41">>, Severity |-> "CRITICAL"],
                       [VulnerabilityID |-> <<"CVE-42">>, Severity |-> "LOW"] }
      [] file = 5 -> { [VulnerabilityID |-> <<"CVE-51">>, Severity |-> "MEDIUM"],
                       [VulnerabilityID |-> <<"CVE-52">>, Severity |-> "UNKNOWN"] }
      [] file = 6 -> { [VulnerabilityID |-> <<"CVE-61">>, Severity |-> "INFO"],
                       [VulnerabilityID |-> <<"CVE-62">>, nulls |-> {"Severity"}] }

ZapAlerts ==
    { [pluginid |-> <<"10038">>, riskdesc |-> <<"High", "(Medium)">>,
       instances |-> <<[uri |-> "http://app/"]>>],
      [pluginid |-> <<"10096">>, riskdesc |-> <<"Informational", "(Low)">>] }

DepCheckDoc(vulns) ==
    Json([top |-> "dict",
          dependencies |-> <<[fileName |-> "lib.jar", vulnerabilities |-> vulns]>>])

DepCheckHighMedium ==
    DepCheckDoc(<<[name |-> <<"CVE-1">>, severity |-> "HIGH"],
                  [name |-> <<"CVE-2">>, severity |-> "MEDIUM"]>>)

(* dependency-check findings with and without cvssv3.baseScore *)
DepCheckVulnData ==
    { [name |-> <<"CVE-11">>, severity |-> "HIGH", cvssv3 |-> [baseScore |-> 9]],
      [name |-> <<"CVE-12">>, severity |-> "critical",
       cvssv3 |-> [attackVector |-> "LOCAL"]],
      [name |-> <<"CVE-13">>, severity |-> "LOW"],
      [name |-> <<"CVE-14">>, severity |-> "MEDIUM", cvssv3 |-> [nulls |-> {"baseScore"}]],
      [name |-> <<"CVE-15">>, severity |-> "MODERATE", cvssv3 |-> [baseScore |-> 4]] }

(* Trivy findings that carry CVSS scores *)
TrivyCvssVulns ==
    { [VulnerabilityID |-> <<"CVE-71">>, Severity |-> "LOW",
       CVSS |-> [nvd |-> [V3Score |-> 9]]],
      [VulnerabilityID |-> <<"CVE-72">>, Severity |-> "HIGH",
       CVSS |-> [redhat |-> [V3Score |-> 7]]],
      [VulnerabilityID |-> <<"CVE-73">>, Severity |-> "MEDIUM", nulls |-> {"CVSS"}] }

TrivyDoc(vulns) ==
    Json([top |-> "dict", Results |-> <<[Target |-> "image", Vulnerabilities |-> vulns]>>])

(* the contents an existing report file may have *)
Contents(file) ==
    {Invalid} \cup
    CASE file = 1 ->
           {Json([top |-> "list", items |-> fs]) : fs \in SeqsUpTo(GitleaksFindings, MaxItems)}
             \cup {Json([top |-> "dict", findings |-> <<[File |-> Path1]>>]),
                   Json([top |-> "scalar"])}
      [] file = 2 ->
           {Json([top |-> "dict", results |-> rs]) : rs \in SeqsUpTo(SemgrepResults, MaxItems)}
             \cup {Json([top |-> "dict", results |-> <<[path |-> "app.py"]>>]),
                   Json([top |-> "list", items |-> << >>])}
      [] file = 3 ->
           {TrivyDoc(vs) : vs \in SeqsUpTo(TrivyVulnsOf(3), MaxItems)}
             \cup {DepCheckHighMedium}
      [] file = 4 ->
           {TrivyDoc(vs) : vs \in SeqsUpTo(TrivyVulnsOf(4), MaxItems)}
             \cup {Json([top |-> "dict",
                         Results |-> <<[Target |-> "go.mod"],
                                       [Target |-> "pom.xml",
                                        Vulnerabilities |-> <<[Severity |-> "NEGLIGIBLE"]>>]>>])}
      [] file = 5 ->
           {TrivyDoc(vs) : vs \in SeqsUpTo(TrivyVulnsOf(5), MaxItems)}
             \cup {Json([top |-> "dict",
                         Results |-> <<[Target |-> "image", nulls |-> {"Vulnerabilities"}]>>])}
      [] file = 6 ->
           {TrivyDoc(vs) : vs \in SeqsUpTo(TrivyVulnsOf(6), MaxItems)}
             \cup {TrivyDoc(<<[VulnerabilityID |-> <<"CVE-63">>]>>)}
      [] file = 7 ->
           {Json([top |-> "dict", site |-> <<[alerts |-> as]>>]) :
                as \in SeqsUpTo(ZapAlerts, MaxItems)}
             \cup {Json([top |-> "dict",
                         site |-> <<[alerts |-> <<[riskdesc |-> << >>]>>]>>]),
                   Json([top |-> "dict",
                         site |-> <<[alerts |-> <<[riskdesc |-> <<"Low", "(High)">>,
                                                   instances |-> << >>]>>]>>]),
                   Json([top |-> "dict", nulls |-> {"site"}]),
                   Json([top |-> "dict",
                         site |-> <<[alerts |->
                             <<[pluginid |-> <<"10038">>, riskdesc |-> <<"High", "(Medium)">>],
                               [pluginid |-> <<"10020">>, riskdesc |-> <<"Medium", "(High)">>,
                                instances |-> << >>]>>]>>]),
                   Json([top |-> "dict",
                         site |-> <<[alerts |->
                             <<[pluginid |-> <<"10021">>, riskdesc |-> << >>],
                               [pluginid |-> <<"10096">>, riskdesc |-> <<"Low", "(Medium)">>]>>]>>])}

(* directories with at most MaxPresent existing report files *)
RECURSIVE DirsFrom(_, _)
DirsFrom(file, budget) ==
    IF file > NumReports THEN {<< >>}
    ELSE {<<Absent>> \o d : d \in DirsFrom(file + 1, budget)}
           \cup (IF budget = 0 THEN {}
                 ELSE {<<c>> \o d : c \in Contents(file), d \in DirsFrom(file + 1, budget - 1)})

Directories == DirsFrom(1, MaxPresent)

NoFile == [state |-> "absent"]

(* a local that has not been assigned yet *)
None == [unset |-> TRUE]

(* the watchlist service is not running *)
WatchlistIdle ==
    /\ watchlists = {}
    /\ requests = << >>
    /\ next_id = 1

(* nothing calls a model *)
RetryIdle ==
    /\ fn = "none"
    /\ max_retries = 0
    /\ attempt = 0
    /\ posts = << >>
    /\ sleeps = << >>
    /\ llm_pc = "idle"
    /\ llm_ret = NoValue

(* generate_security_policies is not running *)
PolicyIdle ==
    /\ gsp_pc = "idle"
    /\ hf_token = << >>
    /\ gsp_data = None
    /\ llm_response = NoValue
    /\ policies_data = None
    /\ output = None
    /\ policy_file = NoFile

(* no orchestrator has been constructed *)
OrchestratorIdle ==
    /\ orch_pc = "idle"
    /\ vulnerability_data = None
    /\ ai_insights = << >>
    /\ llm_calls = << >>
    /\ written_files = << >>
    /\ orch_ret = NoValue

(* the report pipeline is not running *)
PipelineIdle ==
    /\ files = [i \in 1..NumReports |-> Absent]
    /\ pc = "unused"
    /\ idx = 1
    /\ all_vulnerabilities = << >>
    /\ tool_summary = << >>
    /\ risk_metrics = None
    /\ compliance_mapping = None
    /\ normalized_data = None
    /\ output_file = NoFile
    /\ run = 1
    /\ call = None
    /\ ret = None

(* everything outside the report pipeline is at rest *)
OthersIdle == WatchlistIdle /\ RetryIdle /\ PolicyIdle /\ OrchestratorIdle

(* the script has been started: nothing is constructed yet *)
Init ==
    /\ files \in Directories
    /\ pc = "new"
    /\ idx = 1
    /\ all_vulnerabilities = << >>
    /\ tool_summary = << >>
    /\ risk_metrics = None
    /\ compliance_mapping = None
    /\ normalized_data = None
    /\ output_file = NoFile
    /\ run = 1
    /\ call = None
    /\ ret = None
    /\ OthersIdle

(***************************************************************************)
(* __init__: self.output_dir.mkdir(parents=True, exist_ok=True).           *)
(***************************************************************************)
Construct ==
    /\ pc = "new"
    /\ pc' = "start"
    /\ UNCHANGED <<otherVars, files, idx, all_vulnerabilities, tool_summary, risk_metrics,
                   compliance_mapping, normalized_data, output_file, run, call, ret>>

(* mkdir raises OSError: the constructor fails, process_all_reports never runs *)
ConstructFails ==
    /\ pc = "new"
    /\ pc' = "init_failed"
    /\ UNCHANGED <<otherVars, files, idx, all_vulnerabilities, tool_summary, risk_metrics,
                   compliance_mapping, normalized_data, output_file, run, call, ret>>

(* the accumulators survive from the previous call *)
StartRunKeepsState ==
    /\ pc = "start"
    /\ pc' = "loop"
    /\ idx' = 1
    /\ UNCHANGED <<otherVars, files, all_vulnerabilities, tool_summary, risk_metrics,
                   compliance_mapping, normalized_data, output_file, run, call, ret>>

(* entry of process_all_reports: all_vulnerabilities = [], tool_summary = {}, *)
(* and the loop over reports.items() starts at its first entry                *)
StartRun ==
    /\ pc = "start"
    /\ pc' = "loop"
    /\ idx' = 1
    /\ all_vulnerabilities' = << >>
    /\ tool_summary' = << >>
    /\ UNCHANGED <<otherVars, files, risk_metrics, compliance_mapping, normalized_data,
                   output_file, run, call, ret>>

(***************************************************************************)
(* process_all_reports, one step per loop iteration and per stage.         *)
(***************************************************************************)
report_file == reports[idx].file

(* the list goes to risk scoring as the loop left it *)
AfterReportSkipsSort == IF idx = NumReports THEN "risk" ELSE "loop"

(* the loop goes on with the next entry of reports, or is over *)
AfterReport == IF idx = NumReports THEN "sort" ELSE "loop"

FoundEntryWithStatus(file, vulns) ==
    IF vulns = << >> THEN [count |-> 0, file |-> file, status |-> "not_found"]
    ELSE [count |-> Len(vulns), file |-> file]

(* {'count': len(vulns), 'file': str(report_file)} *)
FoundEntry(file, vulns) == [count |-> Len(vulns), file |-> file]

NotFoundEntryNoStatus(file) == [count |-> 0, file |-> file]

(* {'count': 0, 'file': str(report_file), 'status': 'not_found'} *)
NotFoundEntry(file) == [count |-> 0, file |-> file, status |-> "not_found"]

(* a later report's records replace the ones gathered so far *)
ExtendOverwrites(list, vulns) == vulns

(* all_vulnerabilities.extend(vulns) *)
Extend(list, vulns) == list \o vulns

SetSummary(summary, key, entry) ==
    [k \in DOMAIN summary \cup {key} |-> IF k = key THEN entry ELSE summary[k]]

(* the entry's count is the running length of the accumulated list *)
ProcessReportCumulative ==
    /\ pc = "loop"
    /\ Exists(files[idx])
    /\ LET outcome == Call(reports[idx].normalizer, files[idx])
       IN  /\ ~outcome.raised
           /\ all_vulnerabilities' = Extend(all_vulnerabilities, outcome.vulns)
           /\ tool_summary' = SetSummary(tool_summary, ToolKey(report_file),
                                  FoundEntry(report_file, all_vulnerabilities'))
           /\ idx' = idx + 1
           /\ pc' = AfterReport
    /\ UNCHANGED <<otherVars, files, risk_metrics, compliance_mapping, normalized_data, output_file>>
    /\ UNCHANGED <<run, call, ret>>

(* if report_path.exists(): vulns = normalizer_func(report_path); ... *)
ProcessReport ==
    /\ pc = "loop"
    /\ Exists(files[idx])
    /\ LET outcome == Call(reports[idx].normalizer, files[idx])
       IN  IF outcome.raised
           THEN /\ pc' = "raised"
                /\ UNCHANGED <<idx, all_vulnerabilities, tool_summary>>
           ELSE /\ all_vulnerabilities' = Extend(all_vulnerabilities, outcome.vulns)
                /\ tool_summary' = SetSummary(tool_summary, ToolKey(report_file),
                                       FoundEntry(report_file, outcome.vulns))
                /\ idx' = idx + 1
                /\ pc' = AfterReport
    /\ UNCHANGED <<otherVars, files, risk_metrics, compliance_mapping, normalized_data, output_file>>
    /\ UNCHANGED <<run, call, ret>>

(* else: print("Report not found"); tool_summary[...] = {... 'status': 'not_found'} *)
ReportNotFound ==
    /\ pc = "loop"
    /\ ~Exists(files[idx])
    /\ tool_summary' = SetSummary(tool_summary, ToolKey(report_file),
                           NotFoundEntry(report_file))
    /\ idx' = idx + 1
    /\ pc' = AfterReport
    /\ UNCHANGED <<otherVars, files, all_vulnerabilities, risk_metrics, compliance_mapping,
                   normalized_data, output_file>>
    /\ UNCHANGED <<run, call, ret>>

SortVulnerabilities ==
    /\ pc = "sort"
    /\ all_vulnerabilities' = SortDesc(all_vulnerabilities)
    /\ pc' = "risk"
    /\ UNCHANGED <<otherVars, files, idx, tool_summary, risk_metrics, compliance_mapping,
                   normalized_data, output_file>>
    /\ UNCHANGED <<run, call, ret>>

CalculateRisk ==
    /\ pc = "risk"
    /\ risk_metrics' = calculate_risk_score(all_vulnerabilities)
    /\ pc' = "assemble"
    /\ UNCHANGED <<otherVars, files, idx, all_vulnerabilities, tool_summary, compliance_mapping,
                   normalized_data, output_file>>
    /\ UNCHANGED <<run, call, ret>>

(* only the tools that reported a finding are counted *)
ProcessedToolsWithFindings(summary) ==
    Cardinality({k \in DOMAIN summary : summary[k].count > 0})

ProcessedTools(summary) ==
    Cardinality({k \in DOMAIN summary : Get(summary[k], "status", "") # "not_found"})

(* normalized_data = {...}: scan_date is wall-clock time and is left out *)
Assemble ==
    /\ pc = "assemble"
    /\ \E iso \in IdSamples(MatchingIds(all_vulnerabilities, "ISO_27001")),
          pci \in IdSamples(MatchingIds(all_vulnerabilities, "PCI_DSS")),
          owasp \in IdSamples(MatchingIds(all_vulnerabilities, "OWASP_Top_10")),
          cwe \in IdSamples(MatchingIds(all_vulnerabilities, "CWE_Top_25")),
          nist \in IdSamples(MatchingIds(all_vulnerabilities, "NIST_CSF")) :
          compliance_mapping' =
              generate_compliance_mapping(all_vulnerabilities,
                  [ISO_27001 |-> iso, PCI_DSS |-> pci, OWASP_Top_10 |-> owasp,
                   CWE_Top_25 |-> cwe, NIST_CSF |-> nist])
    /\ normalized_data' =
          [metadata |-> [total_tools |-> NumReports,
                         processed_tools |-> ProcessedTools(tool_summary),
                         pipeline_version |-> "1.0.0"],
           risk_metrics |-> risk_metrics,
           tool_summary |-> tool_summary,
           vulnerabilities |-> all_vulnerabilities,
           compliance_mapping |-> compliance_mapping']
    /\ pc' = "open"
    /\ UNCHANGED <<otherVars, files, idx, all_vulnerabilities, tool_summary, risk_metrics, output_file>>
    /\ UNCHANGED <<run, call, ret>>

(* open(output_file, 'w') creates or truncates the file *)
OpenOutput ==
    /\ pc = "open"
    /\ output_file' = [state |-> "empty"]
    /\ pc' = "dump"
    /\ UNCHANGED <<otherVars, files, idx, all_vulnerabilities, tool_summary, risk_metrics,
                   compliance_mapping, normalized_data>>
    /\ UNCHANGED <<run, call, ret>>

(* the error is swallowed and the document returned as if it had been written *)
OpenOutputFailsSwallowed ==
    /\ pc = "open"
    /\ pc' = "done"
    /\ ret' = normalized_data
    /\ UNCHANGED <<otherVars, files, idx, all_vulnerabilities, tool_summary, risk_metrics,
                   compliance_mapping, normalized_data, output_file, run, call>>

(* open raises OSError: the exception leaves process_all_reports *)
OpenOutputFails ==
    /\ pc = "open"
    /\ pc' = "failed"
    /\ UNCHANGED <<otherVars, files, idx, all_vulnerabilities, tool_summary, risk_metrics,
                   compliance_mapping, normalized_data, output_file>>
    /\ UNCHANGED <<run, call, ret>>

(* json.dump(normalized_data, f, indent=2); the with block closes the file; *)
(* return normalized_data                                                   *)
DumpOutput ==
    /\ pc = "dump"
    /\ output_file' = [state |-> "complete", document |-> normalized_data]
    /\ pc' = "done"
    /\ ret' = normalized_data
    /\ UNCHANGED <<otherVars, files, idx, all_vulnerabilities, tool_summary, risk_metrics,
                   compliance_mapping, normalized_data>>
    /\ UNCHANGED <<run, call>>

(* a write fails part way (disk full): what was written so far stays *)
DumpOutputFails ==
    /\ pc = "dump"
    /\ output_file' \in {[state |-> "empty"], [state |-> "partial"]}
    /\ pc' = "failed"
    /\ UNCHANGED <<otherVars, files, idx, all_vulnerabilities, tool_summary, risk_metrics,
                   compliance_mapping, normalized_data>>
    /\ UNCHANGED <<run, call, ret>>

Next ==
    \/ Construct
    \/ ConstructFails
    \/ StartRun
    \/ ProcessReport
    \/ ReportNotFound
    \/ SortVulnerabilities
    \/ CalculateRisk
    \/ Assemble
    \/ OpenOutput
    \/ OpenOutputFails
    \/ DumpOutput
    \/ DumpOutputFails

Spec == Init /\ [][Next]_vars

(***************************************************************************)
(* A further run over the same report directory: __main__ builds a new     *)
(* VulnerabilityNormalizer and calls process_all_reports again.  Nothing   *)
(* on disk changes in between; the variables of the finished run keep      *)
(* their values until the new run assigns them.                            *)
(***************************************************************************)
Restart ==
    /\ pc = "done"
    /\ run < MaxRuns
    /\ run' = run + 1
    /\ pc' = "new"
    /\ ret' = None
    /\ UNCHANGED <<otherVars, files, idx, all_vulnerabilities, tool_summary, risk_metrics,
                   compliance_mapping, normalized_data, output_file, call>>

NextRerun ==
    \/ Next
    \/ Restart

SpecRerun == Init /\ [][NextRerun]_vars

(***************************************************************************)
(* calculate_risk_score on its own: every list made of runs of records of  *)
(* one severity, in either direction.                                      *)
(***************************************************************************)
Repeat(x, n) == [i \in 1..n |-> x]

Reverse(s) == [i \in 1..Len(s) |-> s[Len(s) + 1 - i]]

RiskList(c, h, m, l, o) ==
    Repeat([severity |-> "CRITICAL", severity_score |-> 10], c)
      \o Repeat([severity |-> "HIGH", severity_score |-> 8], h)
      \o Repeat([severity |-> "MEDIUM", severity_score |-> 5], m)
      \o Repeat([severity |-> "LOW", severity_score |-> 3], l)
      \o Repeat([severity |-> "INFO", severity_score |-> 1], o)
      \o Repeat([severity |-> "ERROR", severity_score |-> 5], o)
      \o Repeat([severity_score |-> 5], o)

RiskInputs ==
    UNION {{RiskList(c, h, m, l, o), Reverse(RiskList(c, h, m, l, o))} :
              c \in 0..MaxOther, h \in 0..MaxHigh, m \in 0..MaxMedium,
              l \in 0..MaxOther, o \in 0..MaxOther}

InitRisk ==
    /\ files = [i \in 1..NumReports |-> Absent]
    /\ pc = "risk"
    /\ idx = NumReports + 1
    /\ all_vulnerabilities \in RiskInputs
    /\ tool_summary = << >>
    /\ risk_metrics = None
    /\ compliance_mapping = None
    /\ normalized_data = None
    /\ output_file = NoFile
    /\ run = 1
    /\ call = None
    /\ ret = None
    /\ OthersIdle

NextRisk == CalculateRisk

SpecRisk == InitRisk /\ [][NextRisk]_vars

(***************************************************************************)
(* A normalizer called on its own on the content of one file.              *)
(***************************************************************************)
NormalizeInputs ==
    UNION {Contents(file) : file \in 1..NumReports}
      \cup {DepCheckDoc(vs) : vs \in SeqsUpTo(DepCheckVulnData, MaxItems)}
      \cup {TrivyDoc(vs) : vs \in SeqsUpTo(TrivyCvssVulns, MaxItems)}
      \cup {Json([top |-> "list", items |-> fs]) : fs \in SeqsUpTo(GitleaksIdFindings, MaxItems)}
      \cup {Json([top |-> "dict", findings |-> fs]) : fs \in SeqsUpTo(GitleaksIdFindings, 1)}

NormalizeCalls ==
    {[fn |-> n, arg |-> c] : n \in NormalizerNames, c \in NormalizeInputs}

InitNormalize ==
    /\ files = [i \in 1..NumReports |-> Absent]
    /\ pc = "call"
    /\ idx = 1
    /\ all_vulnerabilities = << >>
    /\ tool_summary = << >>
    /\ risk_metrics = None
    /\ compliance_mapping = None
    /\ normalized_data = None
    /\ output_file = NoFile
    /\ run = 1
    /\ call \in NormalizeCalls
    /\ ret = None
    /\ OthersIdle

(* vulns = normalizer_func(report_path) *)
CallNormalizer ==
    /\ pc = "call"
    /\ ret' = Call(call.fn, call.arg)
    /\ pc' = "returned"
    /\ UNCHANGED <<otherVars, files, idx, all_vulnerabilities, tool_summary, risk_metrics,
                   compliance_mapping, normalized_data, output_file, run, call>>

NextNormalize == CallNormalizer

SpecNormalize == InitNormalize /\ [][NextNormalize]_vars

(***************************************************************************)
(* generate_compliance_mapping called on its own on a record list.         *)
(***************************************************************************)
CveRecords(n) ==
    [k \in 1..n |->
        TrivyVuln([VulnerabilityID |-> <<"CVE-", ToString(k)>>, Severity |-> "HIGH"])]

ExtraRecords ==
    { GitleaksVuln([Commit |-> Commit1, File |-> Path1]),
      SemgrepVuln([check_id |-> <<"rule-sqli">>,
                   extra |-> [severity |-> "ERROR",
                              metadata |-> [cwe |-> <<"CWE-89">>,
                                            owasp |-> <<"A03:2021">>]]]),
      SemgrepVuln([check_id |-> <<"rule-eval">>, extra |-> [severity |-> "high"]]),
      ZapVuln([pluginid |-> <<"10038">>, riskdesc |-> <<"High", "(Medium)">>]) }

(* up to MaxIds records with distinct ids, some of them possibly repeated, *)
(* followed by up to two records of other tools                            *)
ComplianceInputs ==
    {CveRecords(n) \o CveRecords(d) \o extra :
        n \in 0..MaxIds, d \in 0..2, extra \in SeqsUpTo(ExtraRecords, 2)}

InitCompliance ==
    /\ files = [i \in 1..NumReports |-> Absent]
    /\ pc = "call"
    /\ idx = 1
    /\ all_vulnerabilities = << >>
    /\ tool_summary = << >>
    /\ risk_metrics = None
    /\ compliance_mapping = None
    /\ normalized_data = None
    /\ output_file = NoFile
    /\ run = 1
    /\ call \in {[fn |-> "generate_compliance_mapping", arg |-> vs] : vs \in ComplianceInputs}
    /\ ret = None
    /\ OthersIdle

(* self.generate_compliance_mapping(all_vulnerabilities) *)
CallComplianceMapping ==
    /\ pc = "call"
    /\ \E iso \in IdSamples(MatchingIds(call.arg, "ISO_27001")),
          pci \in IdSamples(MatchingIds(call.arg, "PCI_DSS")),
          owasp \in IdSamples(MatchingIds(call.arg, "OWASP_Top_10")),
          cwe \in IdSamples(MatchingIds(call.arg, "CWE_Top_25")),
          nist \in IdSamples(MatchingIds(call.arg, "NIST_CSF")) :
          ret' = generate_compliance_mapping(call.arg,
                     [ISO_27001 |-> iso, PCI_DSS |-> pci, OWASP_Top_10 |-> owasp,
                      CWE_Top_25 |-> cwe, NIST_CSF |-> nist])
    /\ pc' = "returned"
    /\ UNCHANGED <<otherVars, files, idx, all_vulnerabilities, tool_summary, risk_metrics,
                   compliance_mapping, normalized_data, output_file, run, call>>

NextCompliance == CallComplianceMapping

SpecCompliance == InitCompliance /\ [][NextCompliance]_vars

(***************************************************************************)
(* Watchlist service (src/app/api/routes/watchlist.py over the table of    *)
(* src/app/db/models/watchlist.py).  Every request runs in its own         *)
(* AsyncSession; a handler gives up control at its awaits only, so one     *)
(* action is the code from one database round trip to the next.  Text is a *)
(* sequence of characters; an Optional value is << >> (None) or <<x>>.     *)
(***************************************************************************)
Users == {"A", "B"}

CharUpper(c) ==
    CASE c = "a" -> "A"
      [] c = "b" -> "B"
      [] OTHER -> c

(* str.upper() *)
UpperText(s) == [i \in 1..Len(s) |-> CharUpper(s[i])]

RECURSIVE LStrip(_)
LStrip(s) == IF s # << >> /\ Head(s) = " " THEN LStrip(Tail(s)) ELSE s

RECURSIVE RStrip(_)
RStrip(s) == IF s # << >> /\ s[Len(s)] = " " THEN RStrip(SubSeq(s, 1, Len(s) - 1)) ELSE s

(* str.strip() *)
Strip(s) == RStrip(LStrip(s))

(* select(Watchlist).where(Watchlist.user_id == user.id, Watchlist.symbol == symbol) *)
SelectBySymbol(table, user, symbol) ==
    {row \in table : row.user_id = user /\ row.symbol = symbol}

(* select(Watchlist).where(Watchlist.id == watchlist_id) without the owner *)
SelectByIdAnyUser(table, user, watchlist_id) ==
    {row \in table : row.id = watchlist_id}

(* select(Watchlist).where(Watchlist.id == watchlist_id, Watchlist.user_id == user.id) *)
SelectById(table, user, watchlist_id) ==
    {row \in table : row.id = watchlist_id /\ row.user_id = user}

(* select(Watchlist).where(Watchlist.user_id == user.id) *)
SelectByUser(table, user) == {row \in table : row.user_id = user}

(* .order_by(Watchlist.added_at.desc()) *)
RECURSIVE OrderByAddedDesc(_)
OrderByAddedDesc(rows) ==
    IF rows = {} THEN << >>
    ELSE LET latest == CHOOSE row \in rows : \A other \in rows : other.added_at <= row.added_at
         IN  <<latest>> \o OrderByAddedDesc(rows \ {latest})

(* the table accepts any row *)
UniqueViolationNever(table, item) == FALSE

(* UniqueConstraint('user_id', 'symbol', name='unique_user_symbol') *)
UniqueViolation(table, item) ==
    \E row \in table : row.user_id = item.user_id /\ row.symbol = item.symbol

(* for field, value in update_dict.items(): setattr(watchlist_item, field, value) *)
ApplyUpdate(row, update_dict) ==
    [field \in DOMAIN row |->
        IF field \in DOMAIN update_dict THEN update_dict[field] ELSE row[field]]

SymbolInputs == {<<"a", "b">>, <<"A", "B", " ">>, <<"C">>}

WatchlistCreates ==
    { [symbol |-> <<"a", "b">>, company_name |-> NoValue, notes |-> NoValue],
      [symbol |-> <<"A", "B", " ">>, company_name |-> Some(<<"I", "n", "c">>),
       notes |-> Some(<<"n">>)],
      [symbol |-> <<"C">>, company_name |-> NoValue, notes |-> Some(<<"n">>)] }

(* model_dump(exclude_unset=True): the fields the request body sets *)
WatchlistUpdates ==
    { << >>,
      [notes |-> Some(<<"m">>)],
      [company_name |-> NoValue] }

(* company_info.get('name') *)
CompanyInfoName == Some(<<"C", "o">>)

InitialRows ==
    { [id |-> 1, user_id |-> "A", symbol |-> <<"A", "B">>,
       company_name |-> Some(<<"I", "n", "c">>), notes |-> NoValue, added_at |-> 1],
      [id |-> 2, user_id |-> "B", symbol |-> <<"A", "B">>,
       company_name |-> NoValue, notes |-> Some(<<"n">>), added_at |-> 2] }

Slots == 1..MaxRequests

Idle == [pc |-> "idle"]

(* the ids that have been given to rows so far *)
IssuedIds == 1..(next_id - 1)

Done(op, user, args, status, body) ==
    [op |-> op, user |-> user, args |-> args, pc |-> "done", status |-> status,
     body |-> body]

Pending(op, user, args, stage, item) ==
    [op |-> op, user |-> user, args |-> args, pc |-> stage, watchlist_item |-> item]

Finish(r, status, body) ==
    requests' = [requests EXCEPT ![r] =
                    Done(requests[r].op, requests[r].user, requests[r].args, status, body)]

(* the service runs over a table that obeys its unique constraint *)
InitWatchlist ==
    /\ PipelineIdle
    /\ RetryIdle
    /\ PolicyIdle
    /\ OrchestratorIdle
    /\ watchlists \in SUBSET InitialRows
    /\ requests = [r \in Slots |-> Idle]
    /\ next_id = 3

(* add_to_watchlist up to the result of the select *)
AddToWatchlist(r) ==
    /\ requests[r] = Idle
    /\ \E user \in Users, watchlist_data \in WatchlistCreates,
          quote \in {"ok", "FinanceAPIError"}, info \in {"ok", "error"} :
          LET symbol == Strip(UpperText(watchlist_data.symbol))
              company_name ==
                  IF watchlist_data.company_name # NoValue THEN watchlist_data.company_name
                  ELSE IF info = "ok" THEN CompanyInfoName
                  ELSE Some(symbol)
              existing == SelectBySymbol(watchlists, user, symbol)
          IN  requests' = [requests EXCEPT ![r] =
                  IF quote = "FinanceAPIError"
                  THEN Done("add", user, watchlist_data, 400, "Invalid stock symbol")
                  ELSE IF Cardinality(existing) > 1
                  THEN Done("add", user, watchlist_data, 500, "MultipleResultsFound")
                  ELSE IF existing # {}
                  THEN Done("add", user, watchlist_data, 409, "already in your watchlist")
                  ELSE Pending("add", user, watchlist_data, "commit",
                               [user_id |-> user, symbol |-> symbol,
                                company_name |-> company_name,
                                notes |-> watchlist_data.notes])]
    /\ UNCHANGED <<besideWatchlist, watchlists, next_id>>

(* session.add(watchlist_item); await session.commit(): the INSERT *)
AddCommit(r) ==
    /\ requests[r].pc = "commit"
    /\ requests[r].op = "add"
    /\ LET item == requests[r].watchlist_item
       IN  IF UniqueViolation(watchlists, item)
           THEN /\ Finish(r, 500, "IntegrityError")
                /\ UNCHANGED <<watchlists, next_id>>
           ELSE LET row == [id |-> next_id, user_id |-> item.user_id,
                            symbol |-> item.symbol, company_name |-> item.company_name,
                            notes |-> item.notes, added_at |-> next_id]
                IN  /\ watchlists' = watchlists \cup {row}
                    /\ next_id' = next_id + 1
                    /\ requests' = [requests EXCEPT ![r] =
                           Pending("add", requests[r].user, requests[r].args, "refresh", row)]
    /\ UNCHANGED besideWatchlist

(* await session.refresh(watchlist_item); return watchlist_item *)
Refresh(r, status) ==
    LET current == {row \in watchlists : row.id = requests[r].watchlist_item.id}
    IN  /\ IF current = {}
           THEN Finish(r, 500, "InvalidRequestError")
           ELSE Finish(r, status, CHOOSE row \in current : TRUE)
        /\ UNCHANGED <<besideWatchlist, watchlists, next_id>>

AddRefresh(r) ==
    /\ requests[r].pc = "refresh"
    /\ requests[r].op = "add"
    /\ Refresh(r, 201)

(* get_watchlist *)
GetWatchlist(r) ==
    /\ requests[r] = Idle
    /\ \E user \in Users :
          requests' = [requests EXCEPT ![r] =
              Done("list", user, << >>, 200,
                   OrderByAddedDesc(SelectByUser(watchlists, user)))]
    /\ UNCHANGED <<besideWatchlist, watchlists, next_id>>

(* get_watchlist_with_quotes: the quote of any item may fail to load *)
GetWatchlistWithQuotes(r) ==
    /\ requests[r] = Idle
    /\ \E user \in Users :
          LET watchlist_items == OrderByAddedDesc(SelectByUser(watchlists, user))
          IN  \E quoted \in SUBSET {row.id : row \in SelectByUser(watchlists, user)} :
                  requests' = [requests EXCEPT ![r] =
                      Done("list_with_quotes", user, << >>, 200,
                           [i \in 1..Len(watchlist_items) |->
                               [item |-> watchlist_items[i],
                                has_quote |-> watchlist_items[i].id \in quoted]])]
    /\ UNCHANGED <<besideWatchlist, watchlists, next_id>>

(* get_watchlist_item *)
GetWatchlistItem(r) ==
    /\ requests[r] = Idle
    /\ \E user \in Users, watchlist_id \in IssuedIds :
          LET found == SelectById(watchlists, user, watchlist_id)
          IN  requests' = [requests EXCEPT ![r] =
                  IF found = {}
                  THEN Done("get", user, watchlist_id, 404, "Watchlist item not found")
                  ELSE Done("get", user, watchlist_id, 200, CHOOSE row \in found : TRUE)]
    /\ UNCHANGED <<besideWatchlist, watchlists, next_id>>

(* update_watchlist_item up to the setattr loop *)
UpdateWatchlistItem(r) ==
    /\ requests[r] = Idle
    /\ \E user \in Users, watchlist_id \in IssuedIds, update_dict \in WatchlistUpdates :
          LET found == SelectById(watchlists, user, watchlist_id)
              args == [watchlist_id |-> watchlist_id, update_dict |-> update_dict]
          IN  requests' = [requests EXCEPT ![r] =
                  IF found = {}
                  THEN Done("update", user, args, 404, "Watchlist item not found")
                  ELSE Pending("update", user, args, "commit",
                               ApplyUpdate(CHOOSE row \in found : TRUE, update_dict))]
    /\ UNCHANGED <<besideWatchlist, watchlists, next_id>>

(* await session.commit(): UPDATE of the changed columns of the row with *)
(* the item's primary key; no row matched raises StaleDataError          *)
UpdateCommit(r) ==
    /\ requests[r].pc = "commit"
    /\ requests[r].op = "update"
    /\ LET item == requests[r].watchlist_item
           update_dict == requests[r].args.update_dict
           current == {row \in watchlists : row.id = item.id}
       IN  IF update_dict = << >>
           THEN /\ requests' = [requests EXCEPT ![r].pc = "refresh"]
                /\ UNCHANGED watchlists
           ELSE IF current = {}
           THEN /\ Finish(r, 500, "StaleDataError")
                /\ UNCHANGED watchlists
           ELSE /\ watchlists' = (watchlists \ current)
                                    \cup {ApplyUpdate(row, update_dict) : row \in current}
                /\ requests' = [requests EXCEPT ![r].pc = "refresh"]
    /\ UNCHANGED <<besideWatchlist, next_id>>

UpdateRefresh(r) ==
    /\ requests[r].pc = "refresh"
    /\ requests[r].op = "update"
    /\ Refresh(r, 200)

(* remove_from_watchlist up to session.delete(watchlist_item) *)
RemoveFromWatchlist(r) ==
    /\ requests[r] = Idle
    /\ \E user \in Users, watchlist_id \in IssuedIds :
          LET found == SelectById(watchlists, user, watchlist_id)
          IN  requests' = [requests EXCEPT ![r] =
                  IF found = {}
                  THEN Done("delete", user, watchlist_id, 404, "Watchlist item not found")
                  ELSE Pending("delete", user, watchlist_id, "commit",
                               CHOOSE row \in found : TRUE)]
    /\ UNCHANGED <<besideWatchlist, watchlists, next_id>>

(* await session.commit(): DELETE of the row with the item's primary key *)
RemoveCommit(r) ==
    /\ requests[r].pc = "commit"
    /\ requests[r].op = "delete"
    /\ watchlists' = {row \in watchlists : row.id # requests[r].watchlist_item.id}
    /\ Finish(r, 204, << >>)
    /\ UNCHANGED <<besideWatchlist, next_id>>

(* remove_by_symbol: the DELETE statement and its commit *)
RemoveBySymbol(r) ==
    /\ requests[r] = Idle
    /\ \E user \in Users, raw \in SymbolInputs :
          LET symbol == Strip(UpperText(raw))
              matched == SelectBySymbol(watchlists, user, symbol)
          IN  /\ watchlists' = watchlists \ matched
              /\ requests' = [requests EXCEPT ![r] =
                    IF Cardinality(matched) = 0
                    THEN Done("remove_by_symbol", user, raw, 404, "not found in your watchlist")
                    ELSE Done("remove_by_symbol", user, raw, 204, << >>)]
    /\ UNCHANGED <<besideWatchlist, next_id>>

(* check_in_watchlist *)
CheckInWatchlist(r) ==
    /\ requests[r] = Idle
    /\ \E user \in Users, raw \in SymbolInputs :
          LET symbol == Strip(UpperText(raw))
              found == SelectBySymbol(watchlists, user, symbol)
          IN  requests' = [requests EXCEPT ![r] =
                  IF Cardinality(found) > 1
                  THEN Done("check", user, raw, 500, "MultipleResultsFound")
                  ELSE Done("check", user, raw, 200,
                            [symbol |-> symbol, in_watchlist |-> found # {},
                             watchlist_id |-> {row.id : row \in found}])]
    /\ UNCHANGED <<besideWatchlist, watchlists, next_id>>

NextWatchlist ==
    \E r \in Slots :
        \/ AddToWatchlist(r)
        \/ AddCommit(r)
        \/ AddRefresh(r)
        \/ GetWatchlist(r)
        \/ GetWatchlistWithQuotes(r)
        \/ GetWatchlistItem(r)
        \/ UpdateWatchlistItem(r)
        \/ UpdateCommit(r)
        \/ UpdateRefresh(r)
        \/ RemoveFromWatchlist(r)
        \/ RemoveCommit(r)
        \/ RemoveBySymbol(r)
        \/ CheckInWatchlist(r)

SpecWatchlist == InitWatchlist /\ [][NextWatchlist]_vars

(***************************************************************************)
(* The retry loops around the model APIs: call_model of                    *)
(* DeepSeekPolicyGenerator and DualModelPolicyGenerator (OpenRouter) and   *)
(* LLMProvider.query (HuggingFace).  posts is the list of the outcomes of  *)
(* requests.post so far, sleeps the list of the arguments of time.sleep.   *)
(* An optional text is NoValue for None and Some(text) otherwise.          *)
(***************************************************************************)
Raised == [raised |-> TRUE]

Returned(value) == [raised |-> FALSE, value |-> value]

(* a JSON document as response.json() hands it back; "invalid" raises *)
JsonList(items) == [type |-> "list", items |-> items]

JsonDict(fields) == [type |-> "dict", fields |-> fields]

JsonNumber(repr) == [type |-> "number", repr |-> repr]

InvalidJson == [type |-> "invalid"]

(* d.get(key, default) for a text field that may hold null *)
GetText(d, key, default) ==
    IF IsNull(d, key) THEN NoValue ELSE Get(d, key, Some(default))

(* str(result) *)
Str(result) ==
    IF result.type = "list" /\ result.items = << >> THEN "[]" ELSE result.repr

(* not generated_text *)
Falsy(text) == text = NoValue \/ text = Some("")

(* len(generated_text.split()) of the texts of the model *)
WordCount(text) == IF text \in {"", " "} THEN 0 ELSE 1

Response(status, body) == [status |-> status, body |-> body]

(* requests.post raised (timeout, connection error) *)
PostRaises == [status |-> 0, body |-> InvalidJson]

Message(content) == JsonDict([message |-> JsonDict([content |-> content])])

(* what OpenRouter may answer *)
ModelResponses ==
    { Response(200, JsonDict([choices |-> JsonList(<<Message(Some("policy"))>>)])),
      Response(200, JsonDict([choices |-> JsonList(<<Message(Some(""))>>)])),
      Response(200, JsonDict([choices |-> JsonList(<<Message(Some(" "))>>)])),
      Response(200, JsonDict([choices |-> JsonList(<<JsonDict([message |->
                                 JsonDict([nulls |-> {"content"}])])>>)])),
      Response(200, JsonDict([choices |-> JsonList(<< >>)])),
      Response(200, JsonDict(EmptyDict)),
      Response(200, InvalidJson),
      Response(429, InvalidJson),
      Response(502, InvalidJson),
      Response(503, InvalidJson),
      Response(500, InvalidJson),
      PostRaises }

(* lines 60-64: the text of choices[0].message.content, "" without choices *)
GeneratedText(result) ==
    IF "choices" \in DOMAIN result.fields /\ Len(result.fields.choices.items) > 0
    THEN LET message == Get(result.fields.choices.items[1].fields, "message",
                            JsonDict(EmptyDict))
         IN  GetText(message.fields, "content", "")
    ELSE Some("")

(* lines 66-70: an empty text is retried unless this is the last attempt *)
RetryEmpty(text, last) == Falsy(text) /\ ~last

(* one pass of the loop body of call_model: what it does with a response;  *)
(* next is "return", "continue" (with the seconds slept) or "except"       *)
CallModelBody(response, attempt_no, retries) ==
    LET last == ~(attempt_no < retries - 1)
    IN  IF response = PostRaises THEN [next |-> "except"]
        ELSE IF response.status = 200
        THEN IF response.body = InvalidJson THEN [next |-> "except"]
             ELSE LET generated_text == GeneratedText(response.body)
                  IN  IF RetryEmpty(generated_text, last)
                      THEN [next |-> "continue", slept |-> <<5>>]
                      ELSE IF generated_text = NoValue THEN [next |-> "except"]
                      ELSE [next |-> "return",
                            value |-> [success |-> TRUE, response |-> generated_text,
                                       token_count |-> WordCount(generated_text[1])]]
        ELSE IF response.status = 429
        THEN [next |-> "continue", slept |-> <<Min(10 * (attempt_no + 1), 30)>>]
        ELSE IF response.status \in {502, 503}
        THEN [next |-> "continue", slept |-> <<Min(15 * (attempt_no + 1), 45)>>]
        ELSE [next |-> "continue", slept |-> IF last THEN << >> ELSE <<5>>]

(* except Exception: sleep 5 seconds unless this was the last attempt *)
ExceptSleep(attempt_no, retries) ==
    IF attempt_no < retries - 1 THEN <<5>> ELSE << >>

MaxRetriesValues == 0..MaxRetries

InitRetry(function) ==
    /\ PipelineIdle
    /\ WatchlistIdle
    /\ PolicyIdle
    /\ OrchestratorIdle
    /\ fn = function
    /\ max_retries \in MaxRetriesValues
    /\ attempt = 0
    /\ posts = << >>
    /\ sleeps = << >>
    /\ llm_pc = "loop"
    /\ llm_ret = NoValue

InitCallModel == InitRetry("call_model")

(* one iteration of for attempt in range(max_retries) in call_model *)
CallModelAttempt ==
    /\ fn = "call_model"
    /\ llm_pc = "loop"
    /\ attempt < max_retries
    /\ \E response \in ModelResponses :
          LET body == CallModelBody(response, attempt, max_retries)
          IN  /\ posts' = Append(posts, response)
              /\ IF body.next = "return"
                 THEN /\ llm_ret' = body.value
                      /\ llm_pc' = "returned"
                      /\ UNCHANGED <<attempt, sleeps>>
                 ELSE /\ sleeps' = sleeps \o (IF body.next = "except"
                                              THEN ExceptSleep(attempt, max_retries)
                                              ELSE body.slept)
                      /\ attempt' = attempt + 1
                      /\ UNCHANGED <<llm_pc, llm_ret>>
    /\ UNCHANGED <<besideRetry, fn, max_retries>>

(* lines 104-109: the loop is used up *)
CallModelFailed ==
    /\ fn = "call_model"
    /\ llm_pc = "loop"
    /\ ~(attempt < max_retries)
    /\ llm_ret' = [success |-> FALSE, error |-> "Model call failed after retries"]
    /\ llm_pc' = "returned"
    /\ UNCHANGED <<besideRetry, fn, max_retries, attempt, posts, sleeps>>

NextCallModel == CallModelAttempt \/ CallModelFailed

SpecCallModel == InitCallModel /\ [][NextCallModel]_vars

(* what the HuggingFace inference API may answer *)
QueryResponses ==
    { Response(200, JsonList(<<JsonDict([generated_text |-> Some("text")])>>)),
      Response(200, JsonList(<<JsonDict(EmptyDict)>>)),
      Response(200, JsonList(<<JsonNumber("7")>>)),
      Response(200, JsonList(<< >>)),
      Response(200, JsonDict([generated_text |-> Some("text")])),
      Response(200, JsonDict([nulls |-> {"generated_text"}])),
      Response(200, JsonNumber("7")),
      Response(200, InvalidJson),
      Response(503, InvalidJson),
      Response(404, InvalidJson),
      Response(429, InvalidJson),
      PostRaises }

(* lines 31-36: the value returned for a 200 response *)
QueryResult(result) ==
    IF result = InvalidJson THEN Raised
    ELSE IF result.type = "list" /\ Len(result.items) > 0
    THEN IF result.items[1].type = "dict"
         THEN Returned(GetText(result.items[1].fields, "generated_text", ""))
         ELSE Raised
    ELSE IF result.type = "dict"
    THEN Returned(GetText(result.fields, "generated_text", ""))
    ELSE Returned(Some(Str(result)))

(* the wait does not grow with the attempt *)
WaitTimeFlat(attempt_no) == 20

(* wait_time = min(20 * (attempt + 1), 60) *)
WaitTime(attempt_no) == Min(20 * (attempt_no + 1), 60)

InitQuery == InitRetry("query")

(* one iteration of for attempt in range(max_retries) in query *)
QueryAttempt ==
    /\ fn = "query"
    /\ llm_pc = "loop"
    /\ attempt < max_retries
    /\ \E response \in QueryResponses :
          LET outcome == IF response = PostRaises THEN Raised
                         ELSE IF response.status = 200 THEN QueryResult(response.body)
                         ELSE Returned(NoValue)
          IN  /\ posts' = Append(posts, response)
              /\ IF outcome.raised
                 THEN /\ sleeps' = sleeps \o ExceptSleep(attempt, max_retries)
                      /\ attempt' = attempt + 1
                      /\ UNCHANGED <<llm_pc, llm_ret>>
                 ELSE IF response.status = 503
                 THEN /\ sleeps' = Append(sleeps, WaitTime(attempt))
                      /\ attempt' = attempt + 1
                      /\ UNCHANGED <<llm_pc, llm_ret>>
                 ELSE /\ llm_ret' = outcome.value
                      /\ llm_pc' = "returned"
                      /\ UNCHANGED <<attempt, sleeps>>
    /\ UNCHANGED <<besideRetry, fn, max_retries>>

(* line 54: return None after the loop *)
QueryFailed ==
    /\ fn = "query"
    /\ llm_pc = "loop"
    /\ ~(attempt < max_retries)
    /\ llm_ret' = NoValue
    /\ llm_pc' = "returned"
    /\ UNCHANGED <<besideRetry, fn, max_retries, attempt, posts, sleeps>>

NextQuery == QueryAttempt \/ QueryFailed

SpecQuery == InitQuery /\ [][NextQuery]_vars

(* the interpreter keeps running the function until it returns *)
SpecQueryFair == SpecQuery /\ WF_vars(NextQuery)

(***************************************************************************)
(* generate_security_policies (src/generate_security_policies.py).  The    *)
(* text of an LLM response is described by what parse_llm_response looks   *)
(* at: whether the characters from the first "{" to the last "}" are a     *)
(* JSON document (and which), and for every line which of the words and    *)
(* marks that the line-by-line extraction tests occur in it.               *)
(***************************************************************************)
(* hf_token and len(hf_token) > 10 *)
TokenUsable(token) == token # << >> /\ Len(token) > 10

Tokens == {<< >>, <<"h", "f">>, [i \in 1..11 |-> "x"]}

(* the dictionary returned when the data file does not exist *)
DefaultVulnData ==
    [vulnerabilities |-> << >>,
     risk_metrics |-> [total |-> 0, critical |-> 0, high |-> 0, medium |-> 0, low |-> 0]]

(* normalized_vulnerabilities.json: missing, not JSON, or a document *)
PolicyDataFiles ==
    { [kind |-> "absent"],
      [kind |-> "invalid"],
      [kind |-> "json", data |-> EmptyDict],
      [kind |-> "json",
       data |-> [vulnerabilities |-> << [category |-> "SCA", severity |-> "CRITICAL"],
                                        [category |-> "SAST", severity |-> "HIGH"] >>,
                 risk_metrics |-> [total |-> 2, critical |-> 1, high |-> 1,
                                   medium |-> 0, low |-> 0]]],
      [kind |-> "json",
       data |-> [vulnerabilities |-> << [category |-> "Container", severity |-> "LOW"] >>,
                 risk_metrics |-> [total |-> 1, critical |-> 0, high |-> 0,
                                   medium |-> 0, low |-> 1]]] }

Line(tags, text) == [tags |-> tags, text |-> text]

Text(braces, document, lines) ==
    [braces |-> braces, document |-> document, lines |-> lines]

EmptyText == Text("none", EmptyDict, << >>)

LlmPolicy == [id |-> "POLICY-001", title |-> "Rotate keys", priority |-> "HIGH"]

(* what the model may write *)
LlmTexts ==
    { EmptyText,
      Text("valid", [policies |-> <<LlmPolicy>>, recommendations |-> <<"Scan daily">>],
           <<Line({}, "Here is the JSON")>>),
      Text("valid", [recommendations |-> <<"Scan daily">>], << >>),
      Text("valid", [policies |-> << >>, recommendations |-> << >>], << >>),
      Text("valid", [error |-> "overloaded"], << >>),
      Text("valid", EmptyDict, << >>),
      Text("invalid", EmptyDict,
           << Line({"policy"}, "Policies:"),
              Line({"keyword", "critical"}, "Patch critical hosts"),
              Line({"recommendation"}, "Recommendations:"),
              Line({"bullet"}, "Scan daily") >>),
      Text("none", EmptyDict, <<Line({}, "I cannot help with that")>>) }

(* call_huggingface_api: the text, or None for a status other than 200 and *)
(* for any exception                                                       *)
ApiResults == {NoValue} \cup {Some(text) : text \in LlmTexts}

(* if llm_response: *)
HasText(response) == response # NoValue /\ response # Some(EmptyText)

(* lines 111-134: the line-by-line extraction; state holds the section and *)
(* the two lists                                                           *)
RECURSIVE ExtractLines(_, _, _)
ExtractLines(lines, i, state) ==
    IF i > Len(lines) THEN state
    ELSE LET line == lines[i]
         IN  ExtractLines(lines, i + 1,
                 IF "policy" \in line.tags \/ "remediation" \in line.tags
                 THEN [state EXCEPT !.current_section = "policies"]
                 ELSE IF "recommendation" \in line.tags
                 THEN [state EXCEPT !.current_section = "recommendations"]
                 ELSE IF "bullet" \in line.tags /\ state.current_section = "recommendations"
                 THEN [state EXCEPT !.recommendations = Append(@, line.text)]
                 ELSE IF "blank" \notin line.tags /\ state.current_section = "policies"
                         /\ line.tags \cap {"critical", "keyword"} # {}
                 THEN [state EXCEPT !.policies =
                          Append(@, [title |-> line.text, description |-> line.text,
                                     priority |-> IF "critical" \in line.tags
                                                  THEN "HIGH" ELSE "MEDIUM"])]
                 ELSE state)

(* policies[:n] *)
FirstN(s, n) == SubSeq(s, 1, Min(Len(s), n))

(* parse_llm_response *)
parse_llm_response(text) ==
    IF text.braces = "valid" THEN text.document
    ELSE LET state == ExtractLines(text.lines, 1,
                          [current_section |-> "none", policies |-> << >>,
                           recommendations |-> << >>])
         IN  [policies |-> FirstN(state.policies, 5),
              recommendations |-> FirstN(state.recommendations, 10)]

(* policies_data and (policies_data.get("policies") or                     *)
(* policies_data.get("recommendations"))                                   *)
Usable(data) ==
    /\ data # EmptyDict
    /\ \/ Get(data, "policies", << >>) # << >>
       \/ Get(data, "recommendations", << >>) # << >>

(* the categories of the vulnerabilities *)
Categories(data) ==
    {Get(vuln, "category", "Unknown") : vuln \in Range(Get(data, "vulnerabilities", << >>))}

FallbackPolicy(id, priority) == [id |-> id, priority |-> priority]

FixedRecommendations == <<"R1", "R2", "R3", "R4", "R5", "R6", "R7", "R8">>

(* generate_fallback_policies *)
generate_fallback_policies(data) ==
    LET metrics == Get(data, "risk_metrics", EmptyDict)
        critical_count == Get(metrics, "critical", 0)
        high_count == Get(metrics, "high", 0)
        categories == Categories(data)
        policies ==
            (IF critical_count > 0 THEN <<FallbackPolicy("POLICY-001", "CRITICAL")>> ELSE << >>)
            \o (IF high_count > 0 THEN <<FallbackPolicy("POLICY-002", "HIGH")>> ELSE << >>)
            \o (IF categories \cap {"SCA", "Dependency"} # {}
                THEN <<FallbackPolicy("POLICY-003", IF high_count > 5 THEN "HIGH" ELSE "MEDIUM")>>
                ELSE << >>)
            \o (IF categories \cap {"Container", "Container Security"} # {}
                THEN <<FallbackPolicy("POLICY-004", "MEDIUM")>> ELSE << >>)
            \o (IF categories \cap {"SAST", "Code"} # {}
                THEN <<FallbackPolicy("POLICY-005", "MEDIUM")>> ELSE << >>)
        recommendations ==
            IF critical_count > 0 \/ high_count > 10
            THEN <<"URGENT">> \o FixedRecommendations ELSE FixedRecommendations
    IN  [policies |-> FirstN(policies, 5), recommendations |-> FirstN(recommendations, 8)]

(* a dictionary or a token counts as true *)
Truthy(data, token) == data # None /\ data # EmptyDict /\ token # << >>

(* lines 328-336: the final output *)
BuildOutputFrom(data, token, vulns) ==
    [generation_method |-> IF Truthy(data, token) THEN "llm" ELSE "intelligent-fallback",
     total_vulnerabilities |-> Get(Get(vulns, "risk_metrics", EmptyDict), "total", 0),
     risk_metrics |-> Get(vulns, "risk_metrics", EmptyDict),
     policies |-> Get(data, "policies", << >>),
     recommendations |-> Get(data, "recommendations", << >>)]

InitPolicies ==
    /\ PipelineIdle
    /\ WatchlistIdle
    /\ RetryIdle
    /\ OrchestratorIdle
    /\ gsp_pc = "start"
    /\ hf_token \in Tokens
    /\ gsp_data = None
    /\ llm_response = NoValue
    /\ policies_data = None
    /\ output = None
    /\ policy_file = NoFile

(* vuln_data = load_vulnerability_data(): json.load raises on a file that  *)
(* is not JSON and the exception leaves generate_security_policies         *)
LoadVulnerabilityData ==
    /\ gsp_pc = "start"
    /\ \E file \in PolicyDataFiles :
          IF file.kind = "invalid"
          THEN gsp_pc' = "raised" /\ UNCHANGED gsp_data
          ELSE /\ gsp_data' = IF file.kind = "absent" THEN DefaultVulnData ELSE file.data
               /\ gsp_pc' = "loaded"
    /\ UNCHANGED <<besidePolicy, hf_token, llm_response, policies_data, output, policy_file>>

(* llm_response = call_huggingface_api(prompt, hf_token) *)
CallHuggingfaceApi ==
    /\ gsp_pc = "loaded"
    /\ TokenUsable(hf_token)
    /\ \E response \in ApiResults :
          /\ llm_response' = response
          /\ gsp_pc' = IF HasText(response) THEN "parse" ELSE "build"
    /\ UNCHANGED <<besidePolicy, hf_token, gsp_data, policies_data, output, policy_file>>

(* the else branch of line 277: no call without a token of more than 10    *)
(* characters                                                              *)
SkipLlm ==
    /\ gsp_pc = "loaded"
    /\ ~TokenUsable(hf_token)
    /\ gsp_pc' = "build"
    /\ UNCHANGED <<besidePolicy, hf_token, gsp_data, llm_response, policies_data, output,
                   policy_file>>

(* lines 309-318 *)
ParseLlmResponse ==
    /\ gsp_pc = "parse"
    /\ LET parsed == parse_llm_response(llm_response[1])
       IN  policies_data' = IF Usable(parsed) THEN parsed ELSE None
    /\ gsp_pc' = "build"
    /\ UNCHANGED <<besidePolicy, hf_token, gsp_data, llm_response, output, policy_file>>

(* lines 324-336: the fallback when there is no policies_data, then output *)
BuildOutput ==
    /\ gsp_pc = "build"
    /\ LET data == IF policies_data = None \/ policies_data = EmptyDict
                   THEN generate_fallback_policies(gsp_data) ELSE policies_data
       IN  /\ policies_data' = data
           /\ output' = BuildOutputFrom(data, hf_token, gsp_data)
    /\ gsp_pc' = "save"
    /\ UNCHANGED <<besidePolicy, hf_token, gsp_data, llm_response, policy_file>>

(* lines 339-344: the file is written, or mkdir, open or json.dump raise *)
SaveOutput ==
    /\ gsp_pc = "save"
    /\ \/ /\ policy_file' = [state |-> "written", content |-> output]
          /\ gsp_pc' = "returned"
       \/ /\ policy_file' \in {NoFile, [state |-> "partial"]}
          /\ gsp_pc' = "raised"
    /\ UNCHANGED <<besidePolicy, hf_token, gsp_data, llm_response, policies_data, output>>

NextPolicies ==
    \/ LoadVulnerabilityData
    \/ CallHuggingfaceApi
    \/ SkipLlm
    \/ ParseLlmResponse
    \/ BuildOutput
    \/ SaveOutput

SpecPolicies == InitPolicies /\ [][NextPolicies]_vars

(***************************************************************************)
(* SecurityReportOrchestrator (src/real_llm_integration.py).  A data       *)
(* document carries, beside its fields, the tags of the oddities of shape  *)
(* that make one of the insight generators raise.  llm_calls lists the     *)
(* generators that sent their prompt, written_files the files written.     *)
(***************************************************************************)
DataDocument(fields, shape) == [type |-> "dict", fields |-> fields, shape |-> shape]

GoodFields ==
    [risk_metrics |-> [total |-> 2, critical |-> 1, risk_level |-> "HIGH"],
     vulnerabilities |-> << [id |-> "CVE-1", category |-> "SCA"],
                            [id |-> "GITLEAKS-1", category |-> "Secrets"] >>]

(* processed/normalized_vulnerabilities.json *)
OrchestratorFiles ==
    { [kind |-> "absent"],
      [kind |-> "invalid"],
      [kind |-> "json", data |-> [type |-> "null"]],
      [kind |-> "json", data |-> [type |-> "list"]],
      [kind |-> "json", data |-> DataDocument([nulls |-> {"risk_metrics"}], {})],
      [kind |-> "json", data |-> DataDocument(EmptyDict, {})],
      [kind |-> "json", data |-> DataDocument(GoodFields, {})],
      [kind |-> "json", data |-> DataDocument(GoodFields, {"vulnerabilities_is_object"})],
      [kind |-> "json", data |-> DataDocument(GoodFields, {"category_is_list"})],
      [kind |-> "json", data |-> DataDocument(GoodFields, {"critical_is_text"})] }

(* lines 57-71: the file is missing, json.load raises, or one of the two   *)
(* .get calls of line 65 is made on a value that is not a dictionary       *)
OrchestratorLoadFails(file) ==
    \/ file.kind # "json"
    \/ file.data.type # "dict"
    \/ IsNull(file.data.fields, "risk_metrics")

(* the generators in the order of generate_ai_insights *)
InsightNames ==
    <<"executive_summary", "remediation_policy", "technical_playbook", "risk_assessment",
      "compliance_mapping">>

(* the generator raises before it sends its prompt: slicing an object,     *)
(* using a list as a dictionary key, comparing a text with 0               *)
InsightRaises(name, data) ==
    \/ name = "executive_summary" /\ "vulnerabilities_is_object" \in data.shape
    \/ name = "remediation_policy" /\ "category_is_list" \in data.shape
    \/ name = "risk_assessment" /\ "critical_is_text" \in data.shape

(* what the model gives back: a text, or None after the retries *)
Generated == {NoValue, Some("text")}

(* self.generate(...) or "... failed.", and the dictionary of              *)
(* generate_risk_assessment                                                *)
InsightValue(name, generated, data) ==
    LET text == IF generated = NoValue THEN "failed" ELSE generated[1]
    IN  IF name = "risk_assessment"
        THEN [business_impact |-> IF Get(data.fields.risk_metrics, "critical", 0) > 0
                                  THEN "SEVERE" ELSE "MEDIUM",
              analysis |-> text]
        ELSE [text |-> text]

(* ai_insights[name] = value *)
SetItem(d, key, value) ==
    [k \in DOMAIN d \cup {key} |-> IF k = key THEN value ELSE d[k]]

InsightsFile(insights) == [name |-> "llm_generated_policy.json", insights |-> insights]

HtmlReports ==
    << [name |-> "comprehensive_security_report.html"],
       [name |-> "executive_summary_report.html"],
       [name |-> "technical_playbook_report.html"] >>

(* a failed insight generation ends the analysis *)
NextStepStopsOnFailure(step, ok) ==
    CASE step = "load" -> IF ok THEN "insights" ELSE "returned"
      [] step = "insights" -> IF ok THEN "save" ELSE "returned"
      [] step = "save" -> "html"
      [] step = "html" -> "returned"

(* run_complete_analysis: the step after a step that returned ok or not *)
NextStep(step, ok) ==
    CASE step = "load" -> IF ok THEN "insights" ELSE "returned"
      [] step = "insights" -> "save"
      [] step = "save" -> "html"
      [] step = "html" -> "returned"

InitOrchestrator ==
    /\ PipelineIdle
    /\ WatchlistIdle
    /\ RetryIdle
    /\ PolicyIdle
    /\ orch_pc = "load"
    /\ vulnerability_data = None
    /\ ai_insights = << >>
    /\ llm_calls = << >>
    /\ written_files = << >>
    /\ orch_ret = NoValue

(* step 1: load_vulnerability_data, and return False when it fails *)
OrchestratorLoad ==
    /\ orch_pc = "load"
    /\ \E file \in OrchestratorFiles :
          /\ vulnerability_data' = IF file.kind = "json" THEN file.data ELSE None
          /\ orch_pc' = NextStep("load", ~OrchestratorLoadFails(file))
          /\ orch_ret' = IF OrchestratorLoadFails(file) THEN Some(FALSE) ELSE orch_ret
    /\ UNCHANGED <<besideOrchestrator, ai_insights, llm_calls, written_files>>

(* step 2, lines 75-77: generate_ai_insights without data *)
GenerateAiInsightsNoData ==
    /\ orch_pc = "insights"
    /\ vulnerability_data.fields = EmptyDict
    /\ orch_pc' = NextStep("insights", FALSE)
    /\ UNCHANGED <<besideOrchestrator, vulnerability_data, ai_insights, llm_calls,
                   written_files, orch_ret>>

(* step 2, lines 79-129: the next generator; an exception ends the step *)
GenerateInsight ==
    /\ orch_pc = "insights"
    /\ vulnerability_data.fields # EmptyDict
    /\ LET name == InsightNames[Len(llm_calls) + 1]
       IN  IF InsightRaises(name, vulnerability_data)
           THEN /\ orch_pc' = NextStep("insights", FALSE)
                /\ UNCHANGED <<ai_insights, llm_calls>>
           ELSE \E generated \in Generated :
                   /\ llm_calls' = Append(llm_calls, name)
                   /\ ai_insights' = SetItem(ai_insights, name,
                                             InsightValue(name, generated, vulnerability_data))
                   /\ orch_pc' = IF Len(llm_calls') = Len(InsightNames)
                                 THEN NextStep("insights", TRUE) ELSE orch_pc
    /\ UNCHANGED <<besideOrchestrator, vulnerability_data, written_files, orch_ret>>

(* step 3: save_ai_insights; an error of open or json.dump is swallowed *)
SaveAiInsights ==
    /\ orch_pc = "save"
    /\ \/ written_files' = Append(written_files, InsightsFile(ai_insights))
       \/ UNCHANGED written_files
    /\ orch_pc' = NextStep("save", TRUE)
    /\ UNCHANGED <<besideOrchestrator, vulnerability_data, ai_insights, llm_calls, orch_ret>>

(* step 4: generate_html_reports writes its reports in order until one     *)
(* raises; then the summary is printed and True returned                   *)
GenerateHtmlReports ==
    /\ orch_pc = "html"
    /\ \E n \in 0..Len(HtmlReports) :
          written_files' = written_files \o SubSeq(HtmlReports, 1, n)
    /\ orch_pc' = NextStep("html", TRUE)
    /\ orch_ret' = Some(TRUE)
    /\ UNCHANGED <<besideOrchestrator, vulnerability_data, ai_insights, llm_calls>>

NextOrchestrator ==
    \/ OrchestratorLoad
    \/ GenerateAiInsightsNoData
    \/ GenerateInsight
    \/ SaveAiInsights
    \/ GenerateHtmlReports

SpecOrchestrator == InitOrchestrator /\ [][NextOrchestrator]_vars

(***************************************************************************)
(* Properties                                                              *)
(***************************************************************************)
ClosedSeverities == {"CRITICAL", "HIGH", "MEDIUM", "LOW", "INFO"}

RiskLevels == {"CRITICAL", "HIGH", "MEDIUM-HIGH", "MEDIUM", "LOW"}

(* number of records of the list whose upper-cased severity is sev *)
TrueCount(vulnerabilities, sev) ==
    Cardinality({i \in 1..Len(vulnerabilities) :
                    Upper(Get(vulnerabilities[i], "severity", "MEDIUM")) = sev})

Scored == pc = "assemble"

(* the run has built the document it returns and writes *)
HasOutput == pc \in {"open", "dump", "done", "failed"}

(* the loop over the report files has ended *)
AfterLoop == pc \in {"sort", "risk", "assemble", "open", "dump", "done", "failed"}

Key(i) == ToolKey(reports[i].file)

(* the report files the loop has already dealt with *)
Handled == 1..(idx - 1)

(* what report file i contributes: its normalizer's list, nothing if absent *)
Contribution(i) ==
    IF Exists(files[i]) THEN Call(reports[i].normalizer, files[i]).vulns ELSE << >>

Concatenation == Flatten([i \in 1..NumReports |-> Contribution(i)])

OnlyPresent(i) == \A j \in 1..NumReports : Exists(files[j]) <=> j = i

(* C1: once calculate_risk_score has run, risk_level is the level of the   *)
(* first rule that matches the list's counts: critical > 0 CRITICAL, else  *)
(* high > 5 HIGH, else high > 0 MEDIUM-HIGH, else medium > 10 MEDIUM, else *)
(* LOW; it is always one of the five levels.                               *)
C1_RiskLevelFirstMatch ==
    Scored =>
        LET c == TrueCount(all_vulnerabilities, "CRITICAL")
            h == TrueCount(all_vulnerabilities, "HIGH")
            m == TrueCount(all_vulnerabilities, "MEDIUM")
            level == risk_metrics.risk_level
        IN  /\ level \in RiskLevels
            /\ c = risk_metrics.critical /\ h = risk_metrics.high /\ m = risk_metrics.medium
            /\ (c > 0 => level = "CRITICAL")
            /\ (c = 0 /\ h > 5 => level = "HIGH")
            /\ (c = 0 /\ h > 0 /\ h <= 5 => level = "MEDIUM-HIGH")
            /\ (c = 0 /\ h = 0 /\ m > 10 => level = "MEDIUM")
            /\ (c = 0 /\ h = 0 /\ m <= 10 => level = "LOW")

(* a critical record together with more than five high ones *)
C1_Witness ==
    /\ Scored
    /\ risk_metrics.critical = 1
    /\ risk_metrics.high = 6
    /\ risk_metrics.risk_level = "CRITICAL"

(* C2: risk_score is 10*critical + 5*high + 2*medium + low over the counts *)
(* reported with it, which are the list's counts; INFO records and records *)
(* of any other severity add nothing.                                      *)
C2_RiskScoreWeights ==
    Scored =>
        /\ risk_metrics.risk_score =
              10 * risk_metrics.critical + 5 * risk_metrics.high
                + 2 * risk_metrics.medium + risk_metrics.low
        /\ risk_metrics.risk_score =
              10 * TrueCount(all_vulnerabilities, "CRITICAL")
                + 5 * TrueCount(all_vulnerabilities, "HIGH")
                + 2 * TrueCount(all_vulnerabilities, "MEDIUM")
                + TrueCount(all_vulnerabilities, "LOW")

(* one record of every severity, an INFO record among them *)
C2_Witness ==
    /\ Scored
    /\ TrueCount(all_vulnerabilities, "INFO") = 1
    /\ Get(risk_metrics, "info", 0) = 1
    /\ risk_metrics.critical = 1 /\ risk_metrics.high = 1 /\ risk_metrics.low = 1
    /\ risk_metrics.risk_score = 16 + 2 * risk_metrics.medium

(* C3: in every assembled output the severity counts of risk_metrics are   *)
(* non-negative and add up to risk_metrics.total.                          *)
C3_CountsSumToTotal ==
    HasOutput =>
        LET rm == normalized_data.risk_metrics
            counts == <<rm.critical, rm.high, rm.medium, rm.low, Get(rm, "info", 0)>>
        IN  /\ \A i \in 1..Len(counts) : counts[i] >= 0
            /\ SumSeq(counts) = rm.total

(* C4: every record of the vulnerabilities list has a severity of the     *)
(* closed set {CRITICAL, HIGH, MEDIUM, LOW, INFO}.                         *)
C4_SeverityClosedSet ==
    \A i \in 1..Len(all_vulnerabilities) :
        all_vulnerabilities[i].severity \in ClosedSeverities

(* post is pre ordered by severity_score, highest first, records of equal  *)
(* score in the order they have in pre                                     *)
StablySorted(pre, post) ==
    /\ Len(post) = Len(pre)
    /\ \A i \in 1..(Len(post) - 1) : SortKey(post[i]) >= SortKey(post[i + 1])
    /\ \A k \in {SortKey(pre[i]) : i \in 1..Len(pre)} :
          SelectSeq(post, LAMBDA x : SortKey(x) = k)
            = SelectSeq(pre, LAMBDA x : SortKey(x) = k)

(* C5: the sort step turns the concatenation of the reports' records (in   *)
(* the fixed file order, findings in file order) into a list ordered by    *)
(* severity_score non-increasing in which records of equal score keep      *)
(* their concatenation order; sorting the result again changes nothing.    *)
C5_StableSort ==
    [][pc = "sort" =>
          /\ all_vulnerabilities = Concatenation
          /\ StablySorted(Concatenation, all_vulnerabilities')
          /\ SortDesc(all_vulnerabilities') = all_vulnerabilities']_vars

(* sorted, reordered by the sort, and holding two different records of     *)
(* equal score                                                             *)
C5_Witness ==
    /\ pc = "risk"
    /\ all_vulnerabilities # Concatenation
    /\ \E i \in 1..Len(all_vulnerabilities) : \E j \in (i + 1)..Len(all_vulnerabilities) :
          /\ SortKey(all_vulnerabilities[i]) = SortKey(all_vulnerabilities[j])
          /\ all_vulnerabilities[i].id # all_vulnerabilities[j].id

(* C6: with dependency-check-report.json holding one dependency with a    *)
(* HIGH and a MEDIUM vulnerability and no other report, the output has two *)
(* records of score 8 and 5 in that order, risk_score 7 and risk_level     *)
(* MEDIUM-HIGH.                                                            *)
C6_DependencyCheckExample ==
    (HasOutput /\ files[3] = DepCheckHighMedium /\ OnlyPresent(3)) =>
        /\ Len(normalized_data.vulnerabilities) = 2
        /\ [i \in 1..2 |-> normalized_data.vulnerabilities[i].severity_score] = <<8, 5>>
        /\ [i \in 1..2 |-> normalized_data.vulnerabilities[i].severity] = <<"HIGH", "MEDIUM">>
        /\ normalized_data.risk_metrics.risk_score = 7
        /\ normalized_data.risk_metrics.risk_level = "MEDIUM-HIGH"

TwoFindings(content) ==
    /\ content.kind = "json"
    /\ content.data.top = "list"
    /\ Len(content.data.items) = 2

OthersNotFound(summary, i) ==
    \A j \in 1..NumReports \ {i} :
        /\ Key(j) \in DOMAIN summary
        /\ summary[Key(j)].count = 0
        /\ Get(summary[Key(j)], "status", "") = "not_found"

C8_MissingReportSkipped ==
    /\ pc # "raised"
    /\ \A i \in Handled :
          ~Exists(files[i]) =>
              /\ Key(i) \in DOMAIN tool_summary
              /\ tool_summary[Key(i)].count = 0
              /\ Get(tool_summary[Key(i)], "status", "") = "not_found"
    /\ pc = "loop" =>
          all_vulnerabilities = Flatten([i \in 1..NumReports |->
                                    IF i \in Handled /\ Exists(files[i])
                                    THEN Call(reports[i].normalizer, files[i]).vulns
                                    ELSE << >>])
    /\ AfterLoop => {Key(i) : i \in 1..NumReports} = DOMAIN tool_summary
    /\ pc = "done" =>
          /\ output_file = [state |-> "complete", document |-> normalized_data]
          /\ Len(normalized_data.vulnerabilities)
                = SumSeq([i \in 1..NumReports |->
                             IF Exists(files[i]) THEN tool_summary[Key(i)].count ELSE 0])

(* the first report is missing, a later one brought records, output written *)
C8_Witness ==
    /\ pc = "done"
    /\ ~Exists(files[1])
    /\ \E i \in 2..NumReports : Exists(files[i]) /\ tool_summary[Key(i)].count > 0
    /\ Get(tool_summary[Key(1)], "status", "") = "not_found"
    /\ output_file.state = "complete"

(* C9: whatever the report file at hand holds, every normalize_* function  *)
(* returns a list and lets no exception out; for invalid JSON the list is  *)
(* empty; the run goes on with the remaining report files and writes the   *)
(* output.                                                                 *)
C9_NormalizersNeverRaise ==
    /\ pc = "loop" =>
          \A n \in NormalizerNames :
              /\ ~Call(n, files[idx]).raised
              /\ files[idx].kind = "invalid" => Call(n, files[idx]).vulns = << >>
    /\ pc # "raised"
    /\ \A i \in Handled :
          files[i].kind = "invalid" =>
              Key(i) \in DOMAIN tool_summary /\ tool_summary[Key(i)].count = 0
    /\ AfterLoop => {Key(i) : i \in 1..NumReports} = DOMAIN tool_summary
    /\ pc = "done" => output_file = [state |-> "complete", document |-> normalized_data]

(* an invalid first report, a later report that brought records, output written *)
C9_Witness ==
    /\ pc = "done"
    /\ files[1].kind = "invalid"
    /\ \E i \in 2..NumReports : Exists(files[i]) /\ tool_summary[Key(i)].count > 0
    /\ output_file.state = "complete"

(* C10 as stated: a report file that exists but holds malformed JSON is    *)
(* recorded with count 0 and status not_found.                             *)
C10_Original ==
    \A i \in Handled :
        files[i].kind = "invalid" =>
            /\ tool_summary[Key(i)].count = 0
            /\ Get(tool_summary[Key(i)], "status", "") = "not_found"

(* C10 amended: a report file that exists but holds malformed JSON is      *)
(* recorded with count 0 and no status field; only a report file that does *)
(* not exist gets status not_found.                                        *)
C10_MalformedRecordedWithoutStatus ==
    \A i \in Handled :
        /\ files[i].kind = "invalid" =>
              tool_summary[Key(i)] = [count |-> 0, file |-> reports[i].file]
        /\ "status" \in DOMAIN tool_summary[Key(i)] <=> ~Exists(files[i])

C10_Witness ==
    /\ pc = "done"
    /\ \E i \in 1..NumReports : files[i].kind = "invalid"
    /\ \E i \in 1..NumReports : ~Exists(files[i])

(***************************************************************************)
(* What a run of process_all_reports over the directory dir produces.      *)
(***************************************************************************)
RECURSIVE ConcatOf(_, _)
ConcatOf(dir, n) ==
    IF n = 0 THEN << >>
    ELSE IF Exists(dir[n])
         THEN Extend(ConcatOf(dir, n - 1), Call(reports[n].normalizer, dir[n]).vulns)
         ELSE ConcatOf(dir, n - 1)

VulnerabilitiesOf(dir) == SortDesc(ConcatOf(dir, NumReports))

SummaryEntryOf(dir, i) ==
    IF Exists(dir[i])
    THEN FoundEntry(reports[i].file, Call(reports[i].normalizer, dir[i]).vulns)
    ELSE NotFoundEntry(reports[i].file)

(* the records of vs that report file t of dir did not contribute *)
OthersRecords(vs, dir, t) ==
    SelectSeq(vs, LAMBDA r : r \notin Range(Call(reports[t].normalizer, dir[t]).vulns))

Failed == pc \in {"failed", "init_failed"}

(* C12: a run either completes and leaves the complete document at the     *)
(* output path, or fails without having created, truncated or partly       *)
(* written the output file.                                                *)
C12_WriteAllOrNothing ==
    /\ pc = "done" => output_file = [state |-> "complete", document |-> normalized_data]
    /\ (run = 1 /\ Failed) => output_file = NoFile

AllKeys == {Key(i) : i \in 1..NumReports}

C14_RerunIdentical ==
    (run > 1 /\ pc = "open") =>
        /\ output_file.state = "complete"
        /\ normalized_data.vulnerabilities = output_file.document.vulnerabilities
        /\ normalized_data.risk_metrics = output_file.document.risk_metrics
        /\ normalized_data.tool_summary = output_file.document.tool_summary

(* the second run found records and files without any *)
C14_Witness ==
    /\ run = 2
    /\ pc = "open"
    /\ Len(normalized_data.vulnerabilities) >= 2
    /\ \E i \in 1..NumReports : normalized_data.tool_summary[Key(i)].count = 0

(* the records of the list that report file i contributed *)
RecordsFrom(vs, i) == SelectSeq(vs, LAMBDA r : r \in Range(Contribution(i)))

(* C15: in every assembled document risk_metrics.total is the length of    *)
(* the vulnerabilities list and the sum of the tool_summary counts; the    *)
(* summary has one entry for each of the configured report files, and the  *)
(* count of each is the number of records of the list that came from it.   *)
C15_CountConservation ==
    HasOutput =>
        LET doc == normalized_data
        IN  /\ DOMAIN doc.tool_summary = AllKeys
            /\ Cardinality(AllKeys) = NumReports
            /\ doc.risk_metrics.total = Len(doc.vulnerabilities)
            /\ Len(doc.vulnerabilities)
                  = SumSeq([i \in 1..NumReports |-> doc.tool_summary[Key(i)].count])
            /\ \A i \in 1..NumReports :
                  doc.tool_summary[Key(i)].count = Len(RecordsFrom(doc.vulnerabilities, i))

(* two files contributed, one of them two records *)
C15_Witness ==
    /\ pc = "done"
    /\ \E i, j \in 1..NumReports :
          /\ i < j
          /\ normalized_data.tool_summary[Key(i)].count = 2
          /\ normalized_data.tool_summary[Key(j)].count = 1
    /\ normalized_data.risk_metrics.total = 3

(* the findings of a dependency-check document in the order they are visited *)
DepInputs(content) ==
    LET dependencies == content.data.dependencies
    IN  Flatten([i \in 1..Len(dependencies) |-> DepVulnList(dependencies[i])])

HasBaseScore(vuln_data) ==
    LET cvssv3 == Get(vuln_data, "cvssv3", EmptyDict)
    IN  "baseScore" \in DOMAIN cvssv3 \/ IsNull(cvssv3, "baseScore")

FixedTable == [CRITICAL |-> 10, HIGH |-> 8, MEDIUM |-> 5, LOW |-> 3, INFO |-> 1]

(* C16: a record returned by a normalizer with a severity among CRITICAL,  *)
(* HIGH, MEDIUM, LOW, INFO has the table value as its severity_score, also *)
(* when the finding carries a CVSS score; the one exception is a record of *)
(* normalize_dependency_check whose finding has the key cvssv3.baseScore,  *)
(* and its severity_score is the value under that key.                     *)
C16_SeverityScoreFromTable ==
    pc = "returned" =>
        \A i \in 1..Len(ret.vulns) :
            LET r == ret.vulns[i]
            IN  IF call.fn = "normalize_dependency_check"
                      /\ HasBaseScore(DepInputs(call.arg)[i])
                THEN LET cvssv3 == DepInputs(call.arg)[i].cvssv3
                     IN  IF IsNull(cvssv3, "baseScore")
                         THEN r.severity_score = Null
                         ELSE r.severity_score = cvssv3.baseScore
                ELSE r.severity \in ClosedSeverities =>
                         r.severity_score = FixedTable[r.severity]

(* dependency-check returned a record scored by its CVSS base score next   *)
(* to one scored by the table                                              *)
C16_Witness ==
    /\ pc = "returned"
    /\ call.fn = "normalize_dependency_check"
    /\ Len(ret.vulns) = 2
    /\ ret.vulns[1].severity = "HIGH" /\ ret.vulns[1].severity_score = 9
    /\ ret.vulns[2].severity = "CRITICAL" /\ ret.vulns[2].severity_score = 10

SeverityKeys == {"critical", "high", "medium", "low", "info"}

NoFindings == \A i \in 1..NumReports : Contribution(i) = << >>

(* C17: when no report file contributes a record, because none exists or   *)
(* because each existing one yields an empty list, the document has an     *)
(* empty vulnerabilities list, total 0, 0 for every severity count it      *)
(* reports (critical, high, medium and low at least), risk_score 0 and     *)
(* risk_level LOW.                                                         *)
C17_ZeroInput ==
    (HasOutput /\ NoFindings) =>
        LET doc == normalized_data
        IN  /\ doc.vulnerabilities = << >>
            /\ doc.risk_metrics.total = 0
            /\ {"critical", "high", "medium", "low"} \subseteq DOMAIN doc.risk_metrics
            /\ \A k \in SeverityKeys \cap DOMAIN doc.risk_metrics : doc.risk_metrics[k] = 0
            /\ doc.risk_metrics.risk_score = 0
            /\ doc.risk_metrics.risk_level = "LOW"

(* a run over a directory whose existing reports yield nothing *)
C17_Witness ==
    /\ pc = "done"
    /\ NoFindings
    /\ \E i, j \in 1..NumReports :
          /\ i # j
          /\ files[i].kind = "invalid"
          /\ files[j].kind = "json"

(* a run over a directory without any report file *)
C17_WitnessNoFiles ==
    /\ pc = "done"
    /\ \A i \in 1..NumReports : ~Exists(files[i])
    /\ normalized_data.risk_metrics.total = 0

(* the distinct ids of the records of the list that the framework collects *)
DistinctMatching(vs, framework) ==
    {vs[i].id : i \in {j \in 1..Len(vs) : Collected(vs[j], framework)}}

(* C18: for every record list the mapping has exactly the five framework   *)
(* entries, and each entry's vulnerability_ids holds no id twice, only ids *)
(* of records of the list that the framework collects, and as many ids as  *)
(* the smaller of 10 and the number of distinct such ids.                  *)
C18_ComplianceSample ==
    pc = "returned" =>
        /\ DOMAIN ret = {"ISO_27001", "PCI_DSS", "OWASP_Top_10", "CWE_Top_25", "NIST_CSF"}
        /\ \A framework \in DOMAIN ret :
              LET ids == ret[framework].vulnerability_ids
                  matching == DistinctMatching(call.arg, framework)
              IN  /\ \A id \in DOMAIN ids : ids[id] = 1
                  /\ DOMAIN ids \subseteq matching
                  /\ BagCardinality(ids) = Min(10, Cardinality(matching))

(* more than ten distinct ids match a framework, some of them repeatedly *)
C18_Witness ==
    /\ pc = "returned"
    /\ Cardinality(DistinctMatching(call.arg, "ISO_27001")) > 10
    /\ ret["ISO_27001"].count > Cardinality(DistinctMatching(call.arg, "ISO_27001"))
    /\ BagCardinality(ret["ISO_27001"].vulnerability_ids) = 10
    /\ BagCardinality(ret["CWE_Top_25"].vulnerability_ids) \in 1..2

Marker ==
    [ISO_27001 |-> "ISO 27001", PCI_DSS |-> "PCI-DSS", OWASP_Top_10 |-> "OWASP Top 10",
     CWE_Top_25 |-> "CWE Top 25", NIST_CSF |-> "NIST CSF"]

(* one of the record's compliance, owasp or cwe tags contains the marker *)
CarriesMarker(vuln, marker) ==
    \/ HasMarker(vuln, marker)
    \/ \E tag \in Range(Get(vuln, "owasp", << >>)) : tag = marker
    \/ \E tag \in Range(Get(vuln, "cwe", << >>)) : tag = marker

(* C19: for each of the five frameworks the reported count is the number   *)
(* of records of the list one of whose compliance, owasp or cwe tags       *)
(* contains the framework's marker string, so that a record with such a    *)
(* tag is collected and a record without one is not.                       *)
C19_CollectedByMarker ==
    pc = "returned" =>
        \A framework \in DOMAIN ret :
            ret[framework].count
                = Len(SelectSeq(call.arg,
                                LAMBDA v : CarriesMarker(v, Marker[framework])))

ExistingReports == {i \in 1..NumReports : Exists(files[i])}

(* C20: in every assembled document processed_tools is the number of       *)
(* configured report files that exist, parsable or not, total_tools is 7,  *)
(* and processed_tools lies between 0 and total_tools.                     *)
C20_ProcessedTools ==
    HasOutput =>
        LET metadata == normalized_data.metadata
        IN  /\ metadata.processed_tools = Cardinality(ExistingReports)
            /\ metadata.total_tools = 7
            /\ 0 <= metadata.processed_tools
            /\ metadata.processed_tools <= metadata.total_tools

(* one of the two existing files could not be parsed *)
C20_Witness ==
    /\ pc = "done"
    /\ Cardinality(ExistingReports) = 2
    /\ \E i \in ExistingReports : files[i].kind = "invalid"
    /\ normalized_data.metadata.processed_tools = 2

(* C21: the table never holds two rows with the same user_id and symbol,   *)
(* whatever the interleaving of the requests' database round trips.        *)
C21_UniqueUserSymbol ==
    \A row, other \in watchlists :
        (row.user_id = other.user_id /\ row.symbol = other.symbol) => row = other

(* two adds of one symbol by one user both passed the existence check; one *)
(* inserted its row and the other's INSERT was refused                     *)
C21_Witness ==
    \E r, q \in Slots :
        /\ r # q
        /\ requests[r].pc = "refresh" /\ requests[r].op = "add"
        /\ requests[q].pc = "done" /\ requests[q].op = "add"
        /\ requests[q].status = 500
        /\ requests[q].body = "IntegrityError"
        /\ requests[q].user = requests[r].user
        /\ Cardinality(SelectBySymbol(watchlists, requests[r].user,
                                       requests[r].watchlist_item.symbol)) = 1

StageRank(stage) ==
    CASE stage = "new" -> 0
      [] stage = "start" -> 1
      [] stage = "loop" -> 2
      [] stage = "sort" -> 3
      [] stage = "risk" -> 4
      [] stage = "assemble" -> 5
      [] stage = "open" -> 6
      [] stage = "dump" -> 7
      [] stage = "done" -> 8
      [] OTHER -> 9

(* C22: every step of a run either handles the next report file in the     *)
(* fixed order, or moves on to the next stage in the order normalizers,    *)
(* sort, risk scoring, compliance mapping and assembly, write, or ends the *)
(* run with an exception.  Risk metrics and the compliance mapping are     *)
(* computed from the sorted list of all files' records, and the output     *)
(* file is touched only once the document is assembled, once by open and   *)
(* once by the dump.                                                       *)
C22_StageOrder ==
    [][/\ \/ pc = "loop" /\ pc' = "loop" /\ idx' = idx + 1
          \/ StageRank(pc') = StageRank(pc) + 1 /\ StageRank(pc') < 9
          \/ pc' \in {"failed", "init_failed"}
       /\ pc = "loop" =>
             /\ DOMAIN tool_summary' = DOMAIN tool_summary \cup {Key(idx)}
             /\ Key(idx) \notin DOMAIN tool_summary
             /\ pc' = "sort" <=> idx = NumReports
       /\ pc' = "risk" => all_vulnerabilities' = SortDesc(Concatenation)
       /\ pc' = "assemble" =>
             /\ all_vulnerabilities' = SortDesc(Concatenation)
             /\ risk_metrics' = calculate_risk_score(SortDesc(Concatenation))
       /\ pc' = "open" =>
             /\ normalized_data'.vulnerabilities = SortDesc(Concatenation)
             /\ normalized_data'.risk_metrics = risk_metrics
             /\ \A framework \in Frameworks :
                   /\ compliance_mapping'[framework].count
                         = Len(FrameworkVulns(SortDesc(Concatenation), framework))
                   /\ DOMAIN compliance_mapping'[framework].vulnerability_ids
                         = MatchingIds(SortDesc(Concatenation), framework)
       /\ output_file' # output_file =>
             /\ pc \in {"open", "dump"}
             /\ normalized_data # None
             /\ output_file' = IF pc = "open" THEN [state |-> "empty"]
                                ELSE IF pc' = "done"
                                THEN [state |-> "complete", document |-> normalized_data]
                                ELSE [state |-> "partial"]]_vars

(* the run is over and the sort had to move a later file's record forward *)
C22_Witness ==
    /\ pc = "done"
    /\ Len(Concatenation) >= 2
    /\ Head(normalized_data.vulnerabilities) # Head(Concatenation)
    /\ normalized_data.risk_metrics.total = Len(Concatenation)

(* the findings of a secrets-scan document: the top-level list or its "findings" *)
FindingsOf(content) ==
    IF content.data.top = "list" THEN content.data.items
    ELSE Get(content.data, "findings", << >>)

IsSecretsReport(content) ==
    /\ content.kind = "json"
    /\ content.data.top \in {"list", "dict"}
    /\ ~IsNull(content.data, "findings")

(* the field the id is cut from holds JSON null *)
IdFieldNull(finding) ==
    \/ IsNull(finding, "Commit")
    \/ "Commit" \notin DOMAIN finding /\ IsNull(finding, "File")

ExpectedId(finding) ==
    LET text == IF "Commit" \in DOMAIN finding THEN finding.Commit
                ELSE IF "File" \in DOMAIN finding THEN finding.File
                ELSE <<"u", "n", "k", "n", "o", "w", "n">>
    IN  <<"GITLEAKS-">> \o SubSeq(text, 1, Min(8, Len(text)))

(* record i of the result is the one the claim describes for finding i *)
OneRecordPerFinding(findings, vulns) ==
    /\ Len(vulns) = Len(findings)
    /\ \A i \in 1..Len(findings) :
          /\ vulns[i].severity = "CRITICAL"
          /\ vulns[i].severity_score = 10
          /\ vulns[i].remediation
                = "Remove the secret from version control and rotate credentials immediately."
          /\ vulns[i].id = ExpectedId(findings[i])

FileFindings(i) ==
    LET data == files[i].data
    IN  IF reports[i].normalizer = "normalize_gitleaks" THEN FindingsOf(files[i])
        ELSE IF reports[i].normalizer = "normalize_zap"
        THEN Flatten([k \in 1..Len(Get(data, "site", << >>)) |->
                         Get(data.site[k], "alerts", << >>)])
        ELSE Flatten([k \in 1..Len(Get(data, "Results", << >>)) |->
                         Get(data.Results[k], "Vulnerabilities", << >>)])

(* the file is a well-formed report of its tool *)
WellFormed(i) ==
    /\ files[i].kind = "json"
    /\ LET data == files[i].data
       IN  IF reports[i].normalizer = "normalize_gitleaks" THEN IsSecretsReport(files[i])
           ELSE IF reports[i].normalizer = "normalize_zap"
           THEN /\ data.top = "dict" /\ "site" \in DOMAIN data
                /\ \A k \in 1..Len(data.site) : "alerts" \in DOMAIN data.site[k]
           ELSE IF reports[i].normalizer = "normalize_trivy"
           THEN /\ data.top = "dict" /\ "Results" \in DOMAIN data
                /\ \A k \in 1..Len(data.Results) : "Vulnerabilities" \in DOMAIN data.Results[k]
           ELSE FALSE

(* processing the finding raises: a null where text is expected, an empty  *)
(* riskdesc, an empty instances list                                       *)
FindingRaises(i, finding) ==
    IF reports[i].normalizer = "normalize_gitleaks" THEN IdFieldNull(finding)
    ELSE IF reports[i].normalizer = "normalize_zap"
    THEN \/ Get(finding, "riskdesc", <<"Medium">>) = << >>
         \/ Get(finding, "instances", <<EmptyDict>>) = << >>
    ELSE IsNull(finding, "Severity")

(* the record a finding of file i gets when processed on its own *)
RecordOf(i, finding) ==
    IF reports[i].normalizer = "normalize_gitleaks" THEN GitleaksVuln(finding)
    ELSE IF reports[i].normalizer = "normalize_zap" THEN ZapVuln(finding)
    ELSE TrivyVuln(finding)

PartlyBad(i) ==
    /\ WellFormed(i)
    /\ \E k \in 1..Len(FileFindings(i)) : FindingRaises(i, FileFindings(i)[k])

(* C25: when a finding of an existing, well-formed report file raises, the *)
(* file's tool_summary entry has count 0 and no status, and the document   *)
(* holds no record of any other finding of that file.                      *)
C25_AllOrNothing ==
    HasOutput =>
        \A i \in 1..NumReports :
            PartlyBad(i) =>
                /\ normalized_data.tool_summary[Key(i)]
                      = [count |-> 0, file |-> reports[i].file]
                /\ \A k \in 1..Len(FileFindings(i)) :
                      ~FindingRaises(i, FileFindings(i)[k]) =>
                          RecordOf(i, FileFindings(i)[k])
                              \notin Range(normalized_data.vulnerabilities)

(* a secrets report and a ZAP report each lost a good finding to a bad one *)
C25_Witness ==
    /\ pc = "done"
    /\ PartlyBad(1) /\ Len(FileFindings(1)) = 2
    /\ PartlyBad(7) /\ Len(FileFindings(7)) = 2
    /\ normalized_data.vulnerabilities = << >>

(* a ZAP report lost a good finding while another file's records are kept *)
C25_WitnessOthersKept ==
    /\ pc = "done"
    /\ PartlyBad(7) /\ Len(FileFindings(7)) = 2
    /\ Len(normalized_data.vulnerabilities) = 2

(* the request whose step this is *)
Stepped(r) == requests'[r] # requests[r]

(* C23: an add request that is answered while the caller's watchlist holds *)
(* a row for the upper-cased, stripped symbol is answered 409 (or 400 when *)
(* the quote lookup failed) and leaves the table as it was.                *)
C23_DuplicateAddGets409 ==
    [][\A r \in Slots :
          (/\ Stepped(r)
           /\ requests'[r].pc = "done"
           /\ requests'[r].op = "add"
           /\ SelectBySymbol(watchlists, requests'[r].user,
                             Strip(UpperText(requests'[r].args.symbol))) # {})
          => /\ requests'[r].status \in {400, 409}
             /\ watchlists' = watchlists]_vars

(* C29: a get, update or delete by id that names a row of another user is  *)
(* answered 404; a step of a user's request leaves the rows of all other   *)
(* users as they were; an item or a list that is returned holds only rows  *)
(* of the caller.                                                          *)
C29_UserIsolation ==
    [][\A r \in Slots :
          Stepped(r) =>
              LET req == requests'[r]
              IN  /\ {row \in watchlists' : row.user_id # req.user}
                        = {row \in watchlists : row.user_id # req.user}
                  /\ (requests[r] = Idle /\ req.op \in {"get", "update", "delete"}) =>
                        LET watchlist_id == IF req.op = "update" THEN req.args.watchlist_id
                                            ELSE req.args
                        IN  (\E row \in watchlists :
                                row.id = watchlist_id /\ row.user_id # req.user)
                            => (req.pc = "done" /\ req.status = 404)
                  /\ (req.pc = "done" /\ req.op = "get" /\ req.status = 200) =>
                        req.body.user_id = req.user
                  /\ (req.pc = "done" /\ req.op = "list") =>
                        \A i \in 1..Len(req.body) : req.body[i].user_id = req.user
                  /\ (req.pc = "done" /\ req.op = "list_with_quotes") =>
                        \A i \in 1..Len(req.body) : req.body[i].item.user_id = req.user
                  /\ (req.pc = "done" /\ req.op = "remove_by_symbol") =>
                        \A row \in watchlists \ watchlists' : row.user_id = req.user]_vars

(* a user asked to delete and to update by id a row of the other user, got *)
(* 404 twice, and the row is still there                                   *)
C29_Witness ==
    \E r, q \in Slots :
        /\ requests[r].pc = "done" /\ requests[r].op = "delete"
        /\ requests[r].status = 404
        /\ requests[q].pc = "done" /\ requests[q].op = "update"
        /\ requests[q].status = 404
        /\ requests[q].args.watchlist_id = requests[r].args
        /\ requests[q].user = requests[r].user
        /\ \E row \in watchlists :
              row.id = requests[r].args /\ row.user_id # requests[r].user

(* a user removed a symbol that the other user also holds: only the        *)
(* caller's row is gone                                                    *)
C29_WitnessRemoveBySymbol ==
    \E r \in Slots :
        /\ requests[r].pc = "done" /\ requests[r].op = "remove_by_symbol"
        /\ requests[r].status = 204
        /\ SelectBySymbol(watchlists, requests[r].user,
                          Strip(UpperText(requests[r].args))) = {}
        /\ \E row \in watchlists :
              /\ row.user_id # requests[r].user
              /\ row.symbol = Strip(UpperText(requests[r].args))

(* C26: when call_model returns success = True, the response text is not   *)
(* empty.                                                                  *)
C26_SuccessHasText ==
    (fn = "call_model" /\ llm_pc = "returned" /\ llm_ret.success)
        => (llm_ret.response # NoValue /\ llm_ret.response # Some(""))

(* the body of a 200 response makes its handling raise: it is not JSON, or *)
(* it is a list whose first item is not an object                          *)
Unanswerable(result) ==
    \/ result = InvalidJson
    \/ /\ result.type = "list"
       /\ result.items # << >>
       /\ result.items[1].type # "dict"

RaisedOn(response) ==
    response = PostRaises \/ (response.status = 200 /\ Unanswerable(response.body))

RetriedOn(response) == response.status = 503 \/ RaisedOn(response)

(* the object of a 200 response in which the text is looked up *)
TextHolder(result) ==
    IF result.type = "list" THEN result.items[1].fields ELSE result.fields

(* the number of 503 responses among the first i *)
Count503(i) == Cardinality({j \in 1..i : posts[j].status = 503})

(* the seconds slept after the i-th request, when the wait after a 503 is  *)
(* taken from the number k                                                 *)
SleptAfter(i, k) ==
    IF posts[i].status = 503 THEN <<Min(20 * k, 60)>>
    ELSE IF i < max_retries THEN <<5>> ELSE << >>

RECURSIVE SleepsByAttempt(_)
SleepsByAttempt(i) ==
    IF i = 0 THEN << >> ELSE SleepsByAttempt(i - 1) \o SleptAfter(i, i)

RECURSIVE SleepsBy503(_)
SleepsBy503(i) ==
    IF i = 0 THEN << >> ELSE SleepsBy503(i - 1) \o SleptAfter(i, Count503(i))

(* the number of requests of a call of query, when it is over and what it  *)
(* returns                                                                 *)
QueryShape ==
    fn = "query" =>
        /\ Len(posts) <= max_retries
        /\ \A i \in 1..(Len(posts) - 1) : RetriedOn(posts[i])
        /\ llm_pc = "loop" =>
              /\ attempt = Len(posts)
              /\ \A i \in 1..Len(posts) : RetriedOn(posts[i])
        /\ llm_pc = "returned" =>
              IF posts = << >> \/ RetriedOn(posts[Len(posts)])
              THEN Len(posts) = max_retries /\ llm_ret = NoValue
              ELSE LET response == posts[Len(posts)]
                   IN  IF response.status # 200 THEN llm_ret = NoValue
                       ELSE IF response.body.type = "number"
                                 \/ response.body = JsonList(<< >>)
                       THEN llm_ret = Some(Str(response.body))
                       ELSE LET holder == TextHolder(response.body)
                            IN  IF IsNull(holder, "generated_text") THEN llm_ret = NoValue
                                ELSE IF "generated_text" \in DOMAIN holder
                                THEN llm_ret = holder.generated_text
                                ELSE llm_ret = Some("")

(* the number of requests after which the loop went round again *)
Retries ==
    IF llm_pc = "returned" /\ posts # << >> /\ ~RetriedOn(posts[Len(posts)])
    THEN Len(posts) - 1 ELSE Len(posts)

(* C28 as stated: the wait after a 503 is min(20*k, 60) seconds for the    *)
(* k-th 503 response of the call.                                          *)
C28_Original ==
    /\ [](/\ QueryShape
          /\ fn = "query" => sleeps = SleepsBy503(Retries))
    /\ <>(llm_pc = "returned")

(* C28: query returns after at most max_retries requests.  It returns at   *)
(* the first response that is neither a 503 nor a failure (a raised        *)
(* request, or a 200 whose body cannot be read): the text for a 200, None  *)
(* for another status; it returns None when max_retries attempts are used  *)
(* up.  The wait after a 503 on attempt k is min(20*k, 60) seconds, after  *)
(* a failure 5 seconds unless it was the last attempt.                      *)
C28_QueryTerminates ==
    /\ [](/\ QueryShape
          /\ fn = "query" => sleeps = SleepsByAttempt(Retries))
    /\ <>(llm_pc = "returned")

(* a raised request, then a 503 on attempt 2 (40 seconds), then the text *)
C28_Witness ==
    /\ fn = "query" /\ llm_pc = "returned"
    /\ Len(posts) = 3
    /\ posts[1] = PostRaises
    /\ posts[2].status = 503
    /\ sleeps = <<5, 40>>
    /\ llm_ret = Some("text")

(* three 503 responses use up max_retries = 3 *)
C28_WitnessUsedUp ==
    /\ fn = "query" /\ llm_pc = "returned"
    /\ max_retries = 3
    /\ \A i \in 1..3 : posts[i].status = 503
    /\ sleeps = <<20, 40, 60>>
    /\ llm_ret = NoValue

(* the policies and recommendations of the output were parsed from an LLM  *)
(* response                                                                *)
ParsedFromLlm ==
    /\ HasText(llm_response)
    /\ Usable(parse_llm_response(llm_response[1]))
    /\ output.policies = Get(parse_llm_response(llm_response[1]), "policies", << >>)
    /\ output.recommendations
          = Get(parse_llm_response(llm_response[1]), "recommendations", << >>)

(* the policies and recommendations of the output are those of             *)
(* generate_fallback_policies                                              *)
ProducedByFallback ==
    /\ output.policies = generate_fallback_policies(gsp_data).policies
    /\ output.recommendations = generate_fallback_policies(gsp_data).recommendations

(* C27: the output's generation_method is "llm" exactly when its policies  *)
(* and recommendations were parsed from an LLM response, and               *)
(* "intelligent-fallback" when generate_fallback_policies produced them.   *)
C27_MethodTellsSource ==
    gsp_pc \in {"save", "returned"} =>
        /\ output.generation_method = "llm" <=> ParsedFromLlm
        /\ (~ParsedFromLlm /\ ProducedByFallback)
              => output.generation_method = "intelligent-fallback"

(* the files of the list from position n + 1 on *)
WrittenSince(n) == SubSeq(written_files', n + 1, Len(written_files'))

C30_WitnessLoadFailed ==
    /\ orch_pc = "returned"
    /\ orch_ret = Some(FALSE)
    /\ vulnerability_data = [type |-> "list"]

====
